---- MODULE Spec2Model ----
(***************************************************************************)
(* Registro de Servicios Chile: a model of the account stores of the       *)
(* layered generation (src/src: domain entity, use cases, JSON repository, *)
(* security manager, edit dialog) and of the flat generation               *)
(* (src/models.py, src/database_mongodb.py, src/ui), and of the background *)
(* notification poller (src/ui/notifications.py).                          *)
(*                                                                         *)
(* Time is a clock of whole seconds (now); dates are clock values.  A      *)
(* Python None is the integer None, a float("nan") amount is NaN with the  *)
(* IEEE comparison rules (every ordered comparison with NaN is false).     *)
(* A JSON value of a date field is a record: the ISO text of a date, JSON  *)
(* null, or the four-letter text "None".                                   *)
(***************************************************************************)
EXTENDS Integers, Sequences, FiniteSets, TLC

\* ---------------------------------------------------------------- bounds
MaxTime == 2
MaxFecha == 1
MaxCuentas == 2
MaxEscrituras == 4
MaxHistorial == 2
MaxAfter == 2
MaxHilos == 3
MaxRecordatorios == 2
MaxDiaR == 9
MaxBorrados == 3
MaxTexto == 2
MaxBuscadas == 1
MaxResumidas == 2
MaxRuta == 2
MaxFilas == 2

\* ------------------------------------------------------ program constants
MONTO_MAXIMO == 10000000
DIAS_365 == 31536000
DIAS_3650 == 315360000
DIAS_30 == 2592000
LIMITE_LISTA == 100
max_backups == 10
SEGUNDOS_DIA == 86400
days_before_due == 3
desktop_notifications == TRUE
enabled == TRUE
vencimiento_dias_antes == 7

None == -1
NaN == -7

Min(a, b) == IF a <= b THEN a ELSE b

\* float comparisons: false as soon as one side is NaN
FloatLe(a, b) == a # NaN /\ b # NaN /\ a <= b
FloatGt(a, b) == a # NaN /\ b # NaN /\ a > b

TiposB == {"Luz", "Agua"}
Fechas == 0..MaxFecha
FechasOpc == {None} \cup {1}
FechasCorte == {None} \cup {MaxFecha + 1}
\* what the cutoff-date widget of the Generation B dialog can hold
FechasCorteB == FechasOpc \cup {MaxFecha + DIAS_30 + 1}
\* what float(text) can give for the text typed in the amount field
Montos == {0, 1, NaN}

TiposA == {"Luz"}

VARIABLES now,
          \* Generation B: JSONCuentaServicioRepository.cuentas, data/cuentas.json,
          \* data/backups, and the number of writes of the file so far
          repo_cuentas, repo_archivo, repo_backups, repo_escrituras,
          \* Generation A: DatabaseManager.cuentas, its JSON file, backups/,
          \* the number of writes, and the number of ids generated
          db_cuentas, db_archivo, db_backups, db_escrituras, db_uuid,
          \* Generation C notifier: NotificationManager.running, .thread (0 is
          \* None, else the index of the thread in nm_hilos), .callbacks, and the
          \* position of every poll thread ever started
          nm_running, nm_thread, nm_callbacks, nm_hilos,
          \* for every poll thread, the size of the account dictionary when its
          \* iteration of the store began (0 outside an iteration); whether the
          \* main thread is inside the join of NotificationManager.stop
          nm_tam, nm_join,
          \* the callbacks queued with root.after and not yet run, the state of
          \* the Tk root window, NotificationIndicator.notification_count
          tk_after, tk_ventana, indicator_count,
          \* the widgets touched so far, each with the thread that touched it
          ui_toques,
          \* NotificationService.get_recordatorios_diarios: the accounts it is
          \* given, the clock it reads, the dictionary it returns, and whether
          \* it has returned
          rd_cuentas, rd_hoy, rd_recordatorios, rd_pc,
          \* a DatabaseManager configured for MongoDB: db_type ("sin_construir"
          \* before the constructor, "excepcion" when the constructor raised),
          \* how the ping ended, the documents of the collection, and the
          \* outcome of the last call, on this manager and on its JSON twin
          mg_db_type, mg_ping, mg_docs, mg_res, mg_res_json,
          \* the cuentas_backup_migrated_<time> files the migration has left
          \* in the data directory, by their time
          mg_migrados,
          \* the delete handlers: how many have run, which one ran last, and
          \* what became of its confirmation dialog ("no_mostrado", "si", "no")
          dl_n, dl_ruta, dl_dialogo,
          \* the Generation B window: the handler the event loop called last
          \* and how the call ended ("normal", "dialogo_error", "propaga")
          hb_handler, hb_fin,
          \* the construction of a Generation B CuentaServicio: the arguments,
          \* the messages of the ValueError it raised (none when it returned),
          \* and whether the constructor has run
          pv_entrada, pv_error, pv_pc,
          \* a call of one of the query functions: its arguments, the value it
          \* returned, and whether it has returned
          ll_args, ll_ret, ll_pc

varsB == <<repo_cuentas, repo_archivo, repo_backups, repo_escrituras>>
varsA == <<db_cuentas, db_archivo, db_backups, db_escrituras, db_uuid>>
varsNM == <<nm_running, nm_thread, nm_callbacks, nm_hilos, nm_tam, nm_join, tk_after,
            tk_ventana, indicator_count>>
varsN == <<varsNM, ui_toques>>
varsR == <<rd_cuentas, rd_hoy, rd_recordatorios, rd_pc>>
varsM == <<mg_db_type, mg_ping, mg_docs, mg_res, mg_res_json, mg_migrados>>
varsD == <<dl_n, dl_ruta, dl_dialogo>>
varsH == <<hb_handler, hb_fin>>
varsV == <<pv_entrada, pv_error, pv_pc>>
varsL == <<ll_args, ll_ret, ll_pc>>
varsP == <<varsR, varsM, varsD, varsH, varsV, varsL>>
vars == <<now, varsB, varsA, varsN, varsP>>

\* the empty dict
Vacio == [x \in {} |-> x]

\* ------------------------------------------------------------ JSON values
JNull == [kind |-> "null", d |-> 0]
JIso(d) == [kind |-> "iso", d |-> d]
JTextoNone == [kind |-> "texto", d |-> 0]

\* x.isoformat() if x else None
IsoONull(d) == IF d = None THEN JNull ELSE JIso(d)

\* a JSON value is truthy unless it is null (the texts here are not empty)
Truthy(j) == j.kind # "null"

\* datetime.fromisoformat(text) succeeds on ISO text only
FromIsoOk(j) == j.kind = "iso"

\* ============================================================ Generation B
\* SecurityManager.sanitizar_datos_json on one leaf value of a date field:
\* a str goes through sanitizar_texto, which leaves ISO text and "None"
\* unchanged (no < > " ' in them); None falls to the last branch,
\* sanitizar_texto(str(None)), the text "None".
SanitizarHoja(j) == IF j.kind = "null" THEN JTextoNone ELSE j

\* sanitizar_datos_json on a serialized history entry (a nested dict whose
\* datos_anteriores / datos_nuevos are dicts themselves)
SanitizarHistorial(h) ==
    [h EXCEPT !.datos_anteriores = SanitizarHoja(@),
              !.datos_nuevos = SanitizarHoja(@)]

\* sanitizar_datos_json on a serialized account
sanitizar_datos_json(data) ==
    [data EXCEPT !.fecha_emision = SanitizarHoja(@),
                 !.fecha_vencimiento = SanitizarHoja(@),
                 !.fecha_pago = SanitizarHoja(@),
                 !.fecha_proxima_lectura = SanitizarHoja(@),
                 !.fecha_corte = SanitizarHoja(@),
                 !.historial = [i \in 1..Min(Len(@), LIMITE_LISTA) |->
                                   SanitizarHistorial(@[i])]]

\* CuentaServicio.__post_init__ : TRUE when no ValueError is raised
post_init_ok(c, t) ==
    /\ ~FloatLe(c.monto, 0)
    /\ ~FloatGt(c.monto, MONTO_MAXIMO)
    /\ ~(c.fecha_vencimiento <= c.fecha_emision)
    /\ ~(c.fecha_emision > t + DIAS_365)
    /\ ~(c.fecha_emision < t - DIAS_3650)
    /\ ~(c.fecha_proxima_lectura # None /\ c.fecha_proxima_lectura < c.fecha_emision)
    /\ ~(c.fecha_corte # None /\ c.fecha_corte < c.fecha_emision)
    /\ ~(c.fecha_corte # None /\ c.fecha_corte > c.fecha_vencimiento + DIAS_30)

\* HistorialCambio of a payment, as marcar_como_pagado builds it; the
\* datos_* fields carry the fecha_pago of the before / after snapshot
HistorialPago(c, fecha_pago, t) ==
    [cuenta_id |-> c.id, tipo_cambio |-> "Pago", fecha_cambio |-> t,
     datos_anteriores |-> JNull, datos_nuevos |-> JIso(fecha_pago)]

\* CuentaServicio.marcar_como_pagado (entities.py): guarded by not pagado
B_marcar_como_pagado(c, t) ==
    IF ~c.pagado
    THEN [c EXCEPT !.pagado = TRUE, !.fecha_pago = t,
                   !.historial = Append(@, HistorialPago(c, t, t))]
    ELSE c

\* _serializar_historial
_serializar_historial(h) ==
    [cuenta_id |-> h.cuenta_id, tipo_cambio |-> h.tipo_cambio,
     fecha_cambio |-> JIso(h.fecha_cambio),
     datos_anteriores |-> h.datos_anteriores, datos_nuevos |-> h.datos_nuevos]

\* _serializar_cuenta
_serializar_cuenta(c) ==
    [id |-> c.id, tipo_servicio |-> c.tipo_servicio,
     fecha_emision |-> JIso(c.fecha_emision),
     fecha_vencimiento |-> JIso(c.fecha_vencimiento),
     monto |-> c.monto, pagado |-> c.pagado,
     fecha_pago |-> IsoONull(c.fecha_pago),
     fecha_proxima_lectura |-> IsoONull(c.fecha_proxima_lectura),
     fecha_corte |-> IsoONull(c.fecha_corte),
     historial |-> [i \in 1..Len(c.historial) |-> _serializar_historial(c.historial[i])]]

\* _deserializar_historial
_deserializar_historial(h) ==
    [cuenta_id |-> h.cuenta_id, tipo_cambio |-> h.tipo_cambio,
     fecha_cambio |-> h.fecha_cambio.d,
     datos_anteriores |-> h.datos_anteriores, datos_nuevos |-> h.datos_nuevos]

\* the entity the constructor call of _deserializar_cuenta builds
DeserializarBase(data) ==
    [id |-> data.id, tipo_servicio |-> data.tipo_servicio,
     fecha_emision |-> data.fecha_emision.d,
     fecha_vencimiento |-> data.fecha_vencimiento.d,
     monto |-> data.monto, pagado |-> data.pagado,
     fecha_pago |-> None, fecha_proxima_lectura |-> None, fecha_corte |-> None,
     historial |-> <<>>]

\* _deserializar_cuenta raises nothing: every fromisoformat gets ISO text
\* and the constructor accepts the record
deserializar_ok(data, t) ==
    /\ FromIsoOk(data.fecha_emision) /\ FromIsoOk(data.fecha_vencimiento)
    /\ post_init_ok(DeserializarBase(data), t)
    /\ Truthy(data.fecha_pago) => FromIsoOk(data.fecha_pago)
    /\ Truthy(data.fecha_proxima_lectura) => FromIsoOk(data.fecha_proxima_lectura)
    /\ Truthy(data.fecha_corte) => FromIsoOk(data.fecha_corte)
    /\ \A i \in 1..Len(data.historial) : FromIsoOk(data.historial[i].fecha_cambio)

\* _deserializar_cuenta
_deserializar_cuenta(data) ==
    [DeserializarBase(data) EXCEPT
        !.fecha_pago = IF Truthy(data.fecha_pago) THEN data.fecha_pago.d ELSE None,
        !.fecha_proxima_lectura = IF Truthy(data.fecha_proxima_lectura)
                                  THEN data.fecha_proxima_lectura.d ELSE None,
        !.fecha_corte = IF Truthy(data.fecha_corte) THEN data.fecha_corte.d ELSE None,
        !.historial = [i \in 1..Len(data.historial) |->
                          _deserializar_historial(data.historial[i])]]

\* the file that does not exist
SinArchivo == [existe |-> FALSE, datos |-> Vacio, seg |-> 0, mtime |-> 0]

\* SecurityManager.crear_backup_seguro: the copy is named after the whole
\* seconds of the file's modification time and (copy2) keeps that time; a
\* backup of the same name is overwritten
crear_backup_seguro(archivo, backups) ==
    IF archivo.existe
    THEN {b \in backups : b.nombre # archivo.seg}
         \cup {[nombre |-> archivo.seg, mtime |-> archivo.mtime]}
    ELSE backups

\* SecurityManager.limpiar_backups_antiguos: keep the max_backups files of
\* the latest modification time
limpiar_backups_antiguos(backups) ==
    {b \in backups : Cardinality({o \in backups : o.mtime > b.mtime}) < max_backups}

\* JSONCuentaServicioRepository._guardar_cuentas, on a store state
\* [cuentas, archivo, backups, escrituras]
_guardar_cuentas(e, t) ==
    [cuentas |-> e.cuentas,
     archivo |-> [existe |-> TRUE,
                  datos |-> [id \in DOMAIN e.cuentas |->
                                sanitizar_datos_json(_serializar_cuenta(e.cuentas[id]))],
                  seg |-> t, mtime |-> e.escrituras + 1],
     backups |-> limpiar_backups_antiguos(crear_backup_seguro(e.archivo, e.backups)),
     escrituras |-> e.escrituras + 1]

\* JSONCuentaServicioRepository._cargar_cuentas: the records go through the
\* sanitizer again; one record that fails empties the whole store
_cargar_cuentas(archivo, t) ==
    IF ~archivo.existe THEN Vacio
    ELSE LET limpio == [id \in DOMAIN archivo.datos |-> sanitizar_datos_json(archivo.datos[id])]
         IN IF \A id \in DOMAIN limpio : deserializar_ok(limpio[id], t)
            THEN [id \in {limpio[k].id : k \in DOMAIN limpio} |->
                     _deserializar_cuenta(limpio[CHOOSE k \in DOMAIN limpio : limpio[k].id = id])]
            ELSE Vacio

\* dict assignment d[k] = v
Poner(d, k, v) == [x \in DOMAIN d \cup {k} |-> IF x = k THEN v ELSE d[x]]

\* del d[k]
Quitar(d, k) == [x \in DOMAIN d \ {k} |-> d[x]]

\* JSONCuentaServicioRepository.guardar
guardar(e, cuenta, t) == _guardar_cuentas([e EXCEPT !.cuentas = Poner(@, cuenta.id, cuenta)], t)

\* JSONCuentaServicioRepository.actualizar
actualizar(e, cuenta, t) ==
    IF cuenta.id \in DOMAIN e.cuentas
    THEN _guardar_cuentas([e EXCEPT !.cuentas = Poner(@, cuenta.id, cuenta)], t)
    ELSE e

\* JSONCuentaServicioRepository.eliminar
eliminar(e, id, t) ==
    IF id \in DOMAIN e.cuentas
    THEN _guardar_cuentas([e EXCEPT !.cuentas = Quitar(@, id)], t)
    ELSE e

\* the id GestionarCuentaServicio.crear_cuenta formats:
\* "<tipo>_<YYYYmmdd_HHMMSS>", the clock cut to whole seconds
cuenta_id(tipo, t) == [tipo |-> tipo, ts |-> t]

\* the entity GestionarCuentaServicio.crear_cuenta constructs
NuevaCuentaB(tipo, fe, fv, monto, t) ==
    [id |-> cuenta_id(tipo, t), tipo_servicio |-> tipo,
     fecha_emision |-> fe, fecha_vencimiento |-> fv, monto |-> monto,
     pagado |-> FALSE, fecha_pago |-> None,
     fecha_proxima_lectura |-> None, fecha_corte |-> None, historial |-> <<>>]

RepoEstado == [cuentas |-> repo_cuentas, archivo |-> repo_archivo,
               backups |-> repo_backups, escrituras |-> repo_escrituras]

PonerRepo(e) ==
    /\ repo_cuentas' = e.cuentas
    /\ repo_archivo' = e.archivo
    /\ repo_backups' = e.backups
    /\ repo_escrituras' = e.escrituras

\* the checks of CuentaDialog.guardar before anything is stored
DialogoValidoB(fe, fv, monto) ==
    /\ ~FloatLe(monto, 0)
    /\ ~FloatGt(monto, MONTO_MAXIMO)
    /\ ~(fv <= fe)

\* CuentaDialog.guardar, new account: crear_cuenta (construct, guardar),
\* then the optional dates are set on the entity and actualizar_cuenta
\* saves again
CuentaDialog_guardar_nueva ==
    \E tipo \in TiposB, fe \in Fechas, fv \in Fechas, monto \in Montos,
       fpl \in FechasOpc, fc \in FechasCorteB :
        /\ Cardinality(DOMAIN repo_cuentas) < MaxCuentas
        /\ repo_escrituras + 2 <= MaxEscrituras
        /\ IF DialogoValidoB(fe, fv, monto) /\ post_init_ok(NuevaCuentaB(tipo, fe, fv, monto, now), now)
           THEN LET c0 == NuevaCuentaB(tipo, fe, fv, monto, now)
                    e1 == guardar(RepoEstado, c0, now)
                    c1 == [c0 EXCEPT !.fecha_proxima_lectura = fpl, !.fecha_corte = fc]
                IN PonerRepo(actualizar(e1, c1, now))
           ELSE UNCHANGED varsB
        /\ UNCHANGED <<now, varsP, varsA, varsN>>

\* CuentaDialog.guardar, existing account: the entity of the store is
\* changed in place, pagado is copied from the checkbox, actualizar_cuenta
CuentaDialog_guardar_editar ==
    \E id \in DOMAIN repo_cuentas, fe \in Fechas, fv \in Fechas, monto \in Montos,
       fpl \in FechasOpc, fc \in FechasCorteB, pagado_var \in BOOLEAN :
        /\ repo_escrituras + 1 <= MaxEscrituras
        /\ IF DialogoValidoB(fe, fv, monto)
           THEN LET c == [repo_cuentas[id] EXCEPT
                             !.fecha_emision = fe, !.fecha_vencimiento = fv,
                             !.monto = monto, !.fecha_proxima_lectura = fpl,
                             !.fecha_corte = fc, !.pagado = pagado_var]
                IN PonerRepo(actualizar(RepoEstado, c, now))
           ELSE UNCHANGED varsB
        /\ UNCHANGED <<now, varsP, varsA, varsN>>

\* MainWindow.marcar_como_pagada -> GestionarCuentaServicio.marcar_como_pagada
MainWindow_marcar_como_pagada ==
    \E id \in DOMAIN repo_cuentas :
        /\ repo_escrituras + 1 <= MaxEscrituras
        /\ Len(repo_cuentas[id].historial) < MaxHistorial
        /\ PonerRepo(actualizar(RepoEstado, B_marcar_como_pagado(repo_cuentas[id], now), now))
        /\ UNCHANGED <<now, varsP, varsA, varsN>>

\* MainWindow.eliminar_cuenta_seleccionada, confirmed
MainWindow_eliminar_cuenta_seleccionada ==
    \E id \in DOMAIN repo_cuentas :
        /\ repo_escrituras + 1 <= MaxEscrituras
        /\ PonerRepo(eliminar(RepoEstado, id, now))
        /\ UNCHANGED <<now, varsP, varsA, varsN>>

\* a restart: JSONCuentaServicioRepository.__init__ loads the file
ReinicioB ==
    /\ repo_archivo.existe
    /\ repo_cuentas' = _cargar_cuentas(repo_archivo, now)
    /\ UNCHANGED <<now, varsP, repo_archivo, repo_backups, repo_escrituras, varsA, varsN>>

\* ============================================================ Generation A
\* CuentaServicio.to_dict (models.py); fecha_lectura_proxima is not among
\* the keys it writes
to_dict(c) ==
    [id |-> c.id, tipo_servicio |-> c.tipo_servicio, monto |-> c.monto,
     fecha_emision |-> IsoONull(c.fecha_emision),
     fecha_vencimiento |-> IsoONull(c.fecha_vencimiento),
     fecha_corte |-> IsoONull(c.fecha_corte),
     pagado |-> c.pagado,
     fecha_pago |-> IsoONull(c.fecha_pago)]

\* CuentaServicio.from_dict (models.py): cls() sets fecha_emision to the
\* clock and leaves the other dates None; a date of the record replaces the
\* default when the value is truthy
from_dict(data, t) ==
    [id |-> data.id, tipo_servicio |-> data.tipo_servicio, monto |-> data.monto,
     fecha_emision |-> IF Truthy(data.fecha_emision) THEN data.fecha_emision.d ELSE t,
     fecha_vencimiento |-> IF Truthy(data.fecha_vencimiento)
                           THEN data.fecha_vencimiento.d ELSE None,
     fecha_corte |-> IF Truthy(data.fecha_corte) THEN data.fecha_corte.d ELSE None,
     fecha_lectura_proxima |-> None,
     pagado |-> data.pagado,
     fecha_pago |-> IF Truthy(data.fecha_pago) THEN data.fecha_pago.d ELSE None]

\* from_dict raises nothing: every truthy date is ISO text
from_dict_ok(data) ==
    \A j \in {data.fecha_emision, data.fecha_vencimiento, data.fecha_corte, data.fecha_pago} :
        Truthy(j) => FromIsoOk(j)

\* CuentaServicio.marcar_como_pagado (models.py): no guard
A_marcar_como_pagado(c, t) == [c EXCEPT !.pagado = TRUE, !.fecha_pago = t]

\* validar_cuenta (models.py): the set of the errors it lists
validar_cuenta(c) ==
    (IF FloatLe(c.monto, 0) THEN {"monto"} ELSE {})
    \cup (IF c.fecha_vencimiento = None THEN {"vencimiento_obligatorio"} ELSE {})
    \cup (IF c.fecha_emision # None /\ c.fecha_vencimiento # None
             /\ c.fecha_vencimiento <= c.fecha_emision
          THEN {"vencimiento_posterior"} ELSE {})
    \cup (IF c.fecha_corte # None /\ c.fecha_vencimiento # None
             /\ c.fecha_corte <= c.fecha_vencimiento
          THEN {"corte_posterior"} ELSE {})

\* DatabaseManager._cleanup_old_backups: above max_backups files, all but
\* the max_backups of the latest modification time are removed
_cleanup_old_backups(backups) ==
    IF Cardinality(backups) > max_backups
    THEN {b \in backups : Cardinality({o \in backups : o.mtime > b.mtime}) < max_backups}
    ELSE backups

\* DatabaseManager._create_backup: the copy is named after the clock, cut
\* to whole seconds, and (copy2) keeps the file's modification time
_create_backup(archivo, backups, t) ==
    IF archivo.existe
    THEN _cleanup_old_backups({b \in backups : b.nombre # t}
                              \cup {[nombre |-> t, mtime |-> archivo.mtime]})
    ELSE backups

\* DatabaseManager._save_json_data, on a store state
_save_json_data(e, t) ==
    [e EXCEPT !.backups = _create_backup(e.archivo, e.backups, t),
              !.archivo = [existe |-> TRUE,
                           datos |-> [id \in DOMAIN e.cuentas |-> to_dict(e.cuentas[id])],
                           seg |-> t, mtime |-> e.escrituras + 1],
              !.escrituras = e.escrituras + 1]

\* DatabaseManager._load_json_data
_load_json_data(archivo, t) ==
    IF ~archivo.existe THEN Vacio
    ELSE IF \A id \in DOMAIN archivo.datos : from_dict_ok(archivo.datos[id])
         THEN [id \in DOMAIN archivo.datos |-> from_dict(archivo.datos[id], t)]
         ELSE Vacio

\* DatabaseManager._generate_id: uuid4, modelled as the next unused number
_generate_id(e) == e.uuid + 1

\* DatabaseManager.crear_cuenta (JSON backend)
crear_cuenta(e, cuenta, t) ==
    LET c == IF cuenta.id = None THEN [cuenta EXCEPT !.id = _generate_id(e)] ELSE cuenta
        u == IF cuenta.id = None THEN e.uuid + 1 ELSE e.uuid
    IN _save_json_data([e EXCEPT !.cuentas = Poner(@, c.id, c), !.uuid = u], t)

\* DatabaseManager.actualizar_cuenta (JSON backend)
actualizar_cuenta(e, cuenta, t) ==
    IF cuenta.id # None /\ cuenta.id \in DOMAIN e.cuentas
    THEN _save_json_data([e EXCEPT !.cuentas = Poner(@, cuenta.id, cuenta)], t)
    ELSE e

\* DatabaseManager.eliminar_cuenta (JSON backend)
eliminar_cuenta(e, id, t) ==
    IF id \in DOMAIN e.cuentas
    THEN _save_json_data([e EXCEPT !.cuentas = Quitar(@, id)], t)
    ELSE e

DbEstado == [cuentas |-> db_cuentas, archivo |-> db_archivo, backups |-> db_backups,
             escrituras |-> db_escrituras, uuid |-> db_uuid]

PonerDb(e) ==
    /\ db_cuentas' = e.cuentas
    /\ db_archivo' = e.archivo
    /\ db_backups' = e.backups
    /\ db_escrituras' = e.escrituras
    /\ db_uuid' = e.uuid

\* CuentaDialog._save (ui/components.py): the account the dialog returns;
\* editando says that the dialog was opened on an account, vieja (self.cuenta)
CuentaDialog_save(editando, vieja, tipo, monto, fe, fv, fc, fl, pagado_var) ==
    LET c == [id |-> None, tipo_servicio |-> tipo, monto |-> monto,
              fecha_emision |-> fe, fecha_vencimiento |-> fv, fecha_corte |-> fc,
              fecha_lectura_proxima |-> fl, pagado |-> FALSE, fecha_pago |-> None]
    IN IF ~editando THEN c
       ELSE [c EXCEPT !.pagado = pagado_var,
                      !.fecha_pago = IF pagado_var /\ vieja.fecha_pago # None
                                     THEN vieja.fecha_pago ELSE None]

\* MainWindow._load_data: the handlers' refresh, on the main thread; it ends
\* in _update_status, which configures status_label
Toque(widget, hilo) == [widget |-> widget, hilo |-> hilo]

_load_data == ui_toques' = ui_toques \cup {Toque("status_label", "main")}

\* CrudOperations.nueva_cuenta
CrudOperations_nueva_cuenta ==
    \E tipo \in TiposA, monto \in Montos, fe \in Fechas, fv \in Fechas, fc \in FechasCorte,
       fl \in FechasOpc :
        /\ tk_ventana = "abierta"
        /\ Cardinality(DOMAIN db_cuentas) < MaxCuentas
        /\ db_escrituras + 1 <= MaxEscrituras
        /\ LET cuenta == CuentaDialog_save(FALSE, Vacio, tipo, monto, fe, fv, fc, fl, FALSE)
           IN IF validar_cuenta(cuenta) = {}
              THEN PonerDb(crear_cuenta(DbEstado, cuenta, now)) /\ _load_data
              ELSE UNCHANGED <<varsA, ui_toques>>
        /\ UNCHANGED <<now, varsP, varsB, varsNM>>

\* CrudOperations.editar_cuenta
CrudOperations_editar_cuenta ==
    \E id \in DOMAIN db_cuentas, tipo \in TiposA, monto \in Montos, fe \in Fechas,
       fv \in Fechas, fc \in FechasCorte, fl \in FechasOpc, pagado_var \in BOOLEAN :
        /\ tk_ventana = "abierta"
        /\ db_escrituras + 1 <= MaxEscrituras
        /\ LET cuenta_editada == [CuentaDialog_save(TRUE, db_cuentas[id], tipo, monto, fe,
                                                    fv, fc, fl, pagado_var) EXCEPT !.id = id]
           IN IF validar_cuenta(cuenta_editada) = {}
              THEN PonerDb(actualizar_cuenta(DbEstado, cuenta_editada, now)) /\ _load_data
              ELSE UNCHANGED <<varsA, ui_toques>>
        /\ UNCHANGED <<now, varsP, varsB, varsNM>>

\* CrudOperations.marcar_pagado: returns early on a paid account
CrudOperations_marcar_pagado ==
    \E id \in DOMAIN db_cuentas :
        /\ tk_ventana = "abierta"
        /\ db_escrituras + 1 <= MaxEscrituras
        /\ IF db_cuentas[id].pagado
           THEN UNCHANGED <<varsA, ui_toques>>
           ELSE /\ PonerDb(actualizar_cuenta(DbEstado,
                                             A_marcar_como_pagado(db_cuentas[id], now), now))
                /\ _load_data
        /\ UNCHANGED <<now, varsP, varsB, varsNM>>

\* a caller of the model's own API: cuenta.marcar_como_pagado() on a stored
\* account, then DatabaseManager.actualizar_cuenta
CuentaServicio_marcar_como_pagado ==
    \E id \in DOMAIN db_cuentas :
        /\ db_escrituras + 1 <= MaxEscrituras
        /\ PonerDb(actualizar_cuenta(DbEstado, A_marcar_como_pagado(db_cuentas[id], now), now))
        /\ UNCHANGED <<now, varsP, varsB, varsN>>

\* CrudOperations.eliminar_cuenta, confirmed, one account selected
CrudOperations_eliminar_cuenta ==
    \E id \in DOMAIN db_cuentas :
        /\ tk_ventana = "abierta"
        /\ db_escrituras + 1 <= MaxEscrituras
        /\ PonerDb(eliminar_cuenta(DbEstado, id, now))
        /\ _load_data
        /\ UNCHANGED <<now, varsP, varsB, varsNM>>

\* a restart: DatabaseManager._init_json loads the file
ReinicioA ==
    /\ db_archivo.existe
    /\ db_cuentas' = _load_json_data(db_archivo, now)
    /\ UNCHANGED <<now, varsP, db_archivo, db_backups, db_escrituras, db_uuid, varsB, varsN>>

\* the clock advances one second
\* ================================================= Generation C notifier
Max(a, b) == IF a >= b THEN a ELSE b

\* CuentaServicio.dias_para_vencer: timedelta.days is the floor of the
\* difference in days
dias_para_vencer(c, t) ==
    IF c.pagado THEN 0 ELSE Max(0, (c.fecha_vencimiento - t) \div SEGUNDOS_DIA)

\* CuentaServicio.esta_en_riesgo_corte
esta_en_riesgo_corte(c, t) ==
    IF c.pagado \/ c.fecha_corte = None THEN FALSE ELSE t >= c.fecha_corte

\* DatabaseManager._obtener_pendientes_json: the ids of the unpaid accounts
_obtener_pendientes_json(cuentas) == {id \in DOMAIN cuentas : ~cuentas[id].pagado}

\* NotificationManager._check_notifications: the notifications it builds,
\* each as <<id of the account, type>>
Notificaciones(cuentas, t) ==
    LET pend == _obtener_pendientes_json(cuentas)
    IN {<<id, "warning">> : id \in {i \in pend :
            /\ dias_para_vencer(cuentas[i], t) <= days_before_due
            /\ dias_para_vencer(cuentas[i], t) > 0}}
       \cup {<<id, "error">> : id \in {i \in pend :
            /\ ~(/\ dias_para_vencer(cuentas[i], t) <= days_before_due
                 /\ dias_para_vencer(cuentas[i], t) > 0)
            /\ dias_para_vencer(cuentas[i], t) <= 0}}
       \cup {<<id, "critical">> : id \in {i \in pend : esta_en_riesgo_corte(cuentas[i], t)}}

\* MainWindow._on_notifications_received run by thread hilo: the widgets it
\* configures (NotificationIndicator.update_count, then _update_status when
\* a notification is critical); on a destroyed window the first widget call
\* raises and _send_notifications swallows the exception
ToquesCallback(ns, hilo) ==
    IF tk_ventana # "abierta" THEN {}
    ELSE {Toque("count_label", hilo)}
         \cup (IF \E n \in ns : n[2] = "critical" THEN {Toque("status_label", hilo)} ELSE {})

\* NotificationManager._notification_loop, the test of `while self.running`
\* by poll thread h
NotificationManager_loop_while(h) ==
    /\ nm_hilos[h] = "while"
    /\ nm_hilos' = [nm_hilos EXCEPT ![h] = IF nm_running THEN "check" ELSE "fin"]
    /\ UNCHANGED <<now, varsP, varsB, varsA, nm_running, nm_thread, nm_callbacks, nm_tam, nm_join,
                   tk_after, tk_ventana, indicator_count, ui_toques>>

\* NotificationManager._check_notifications by poll thread h, its first
\* statement: obtener_cuentas_pendientes starts to iterate
\* DatabaseManager.cuentas, the dictionary the main thread's handlers write;
\* no lock is taken
NotificationManager_obtener_cuentas_pendientes(h) ==
    /\ nm_hilos[h] = "check"
    /\ nm_hilos' = [nm_hilos EXCEPT ![h] = "iter"]
    /\ nm_tam' = [nm_tam EXCEPT ![h] = Cardinality(DOMAIN db_cuentas)]
    /\ UNCHANGED <<now, varsP, varsB, varsA, nm_running, nm_thread, nm_callbacks, nm_join,
                   tk_after, tk_ventana, indicator_count, ui_toques>>

\* the rest of NotificationManager._check_notifications by poll thread h, with
\* _send_notifications and _show_desktop_notifications: the callbacks run
\* on this thread, the popup is queued with root.after. A dictionary whose
\* size changed during the iteration raises RuntimeError, which the handler
\* of _check_notifications swallows: nothing is sent
NotificationManager_check_notifications(h) ==
    /\ nm_hilos[h] = "iter"
    /\ tk_after < MaxAfter
    /\ LET ns == IF Cardinality(DOMAIN db_cuentas) # nm_tam[h] THEN {}
                 ELSE Notificaciones(db_cuentas, now)
       IN IF ns # {}
          THEN /\ ui_toques' = ui_toques \cup
                      (IF Len(nm_callbacks) > 0 THEN ToquesCallback(ns, "poll") ELSE {})
               /\ indicator_count' = IF Len(nm_callbacks) > 0 /\ tk_ventana = "abierta"
                                     THEN Cardinality(ns) ELSE indicator_count
               /\ tk_after' = IF desktop_notifications /\ tk_ventana = "abierta"
                              THEN tk_after + 1 ELSE tk_after
          ELSE UNCHANGED <<ui_toques, indicator_count, tk_after>>
    /\ nm_hilos' = [nm_hilos EXCEPT ![h] = "sleep"]
    /\ nm_tam' = [nm_tam EXCEPT ![h] = 0]
    /\ UNCHANGED <<now, varsP, varsB, varsA, nm_running, nm_thread, nm_callbacks, nm_join,
                   tk_ventana>>

\* the end of time.sleep(check_interval) in poll thread h
NotificationManager_loop_sleep(h) ==
    /\ nm_hilos[h] = "sleep"
    /\ nm_hilos' = [nm_hilos EXCEPT ![h] = "while"]
    /\ UNCHANGED <<now, varsP, varsB, varsA, nm_running, nm_thread, nm_callbacks, nm_tam, nm_join,
                   tk_after, tk_ventana, indicator_count, ui_toques>>

\* the Tk main loop runs one callback queued with after:
\* NotificationManager._show_notification_popup, on the main thread
Tk_after_show_notification_popup ==
    /\ tk_ventana = "abierta"
    /\ tk_after > 0
    /\ tk_after' = tk_after - 1
    /\ ui_toques' = ui_toques \cup {Toque("popup", "main")}
    /\ UNCHANGED <<now, varsP, varsB, varsA, nm_running, nm_thread, nm_callbacks, nm_hilos,
                   nm_tam, nm_join, tk_ventana, indicator_count>>

\* MainWindow._on_closing: NotificationManager.stop clears the flag and joins
\* for at most one second, then the root window is destroyed
MainWindow_on_closing ==
    /\ tk_ventana = "abierta"
    /\ nm_running' = FALSE
    /\ tk_ventana' = "destruida"
    /\ tk_after' = 0
    /\ UNCHANGED <<now, varsP, varsB, varsA, nm_thread, nm_callbacks, nm_hilos, nm_tam, nm_join,
                   indicator_count, ui_toques>>

\* NotificationManager.start, called on the main thread
NotificationManager_start ==
    /\ ~nm_join
    /\ Len(nm_hilos) < MaxHilos
    /\ IF ~enabled \/ nm_running
       THEN UNCHANGED <<nm_running, nm_thread, nm_hilos, nm_tam>>
       ELSE /\ nm_running' = TRUE
            /\ nm_hilos' = Append(nm_hilos, "while")
            /\ nm_tam' = Append(nm_tam, 0)
            /\ nm_thread' = Len(nm_hilos) + 1
    /\ UNCHANGED <<now, varsP, varsB, varsA, nm_callbacks, nm_join, tk_after, tk_ventana,
                   indicator_count, ui_toques>>

\* NotificationManager.stop, called on the main thread, up to the call of
\* thread.join(timeout=1)
NotificationManager_stop ==
    /\ ~nm_join
    /\ nm_running' = FALSE
    /\ nm_join' = (nm_thread # 0)
    /\ UNCHANGED <<now, varsP, varsB, varsA, nm_thread, nm_callbacks, nm_hilos, nm_tam, tk_after,
                   tk_ventana, indicator_count, ui_toques>>

\* the return of thread.join(timeout=1) in NotificationManager.stop: the
\* thread has ended, or the second has gone by with the thread inside
\* time.sleep(check_interval), inside the query of the store or inside the
\* rest of _check_notifications
NotificationManager_stop_join ==
    /\ nm_join
    /\ nm_hilos[nm_thread] \in {"fin", "sleep", "check", "iter"}
    /\ nm_join' = FALSE
    /\ UNCHANGED <<now, varsP, varsB, varsA, nm_running, nm_thread, nm_callbacks, nm_hilos, nm_tam,
                   tk_after, tk_ventana, indicator_count, ui_toques>>

\* ====================================== DatabaseManager on MongoDB
\* the outcome of a manager call: whether it raised, and what it returned
\* (<<>> for None)
Resultado(op, lanza, valor) == [op |-> op, lanza |-> lanza, valor |-> valor]
SinResultado == Resultado("ninguna", FALSE, <<>>)

\* how MongoClient(...) and admin.command('ping') can end: the two
\* exceptions _init_mongodb names, and a pymongo error of another class
\* (an authentication failure is an OperationFailure)
ResultadosPing == {"ok", "ConnectionFailure", "ServerSelectionTimeoutError",
                   "OperationFailure"}

\* DatabaseManager._crear_cuenta_mongodb: insert_one on a collection with a
\* unique index on id; every exception is raised again
_crear_cuenta_mongodb(docs, cuenta, falla) ==
    IF falla \/ cuenta.id \in DOMAIN docs
    THEN [docs |-> docs, res |-> Resultado("crear", TRUE, <<>>)]
    ELSE [docs |-> Poner(docs, cuenta.id, to_dict(cuenta)),
          res |-> Resultado("crear", FALSE, <<cuenta.id>>)]

\* DatabaseManager._obtener_cuenta_mongodb: find_one, then from_dict
_obtener_cuenta_mongodb(docs, id, falla, t) ==
    IF falla \/ id \notin DOMAIN docs \/ ~from_dict_ok(docs[id])
    THEN Resultado("obtener", FALSE, <<>>)
    ELSE Resultado("obtener", FALSE, <<from_dict(docs[id], t)>>)

\* DatabaseManager._actualizar_cuenta_mongodb: replace_one; actualizar_cuenta
\* has set updated_at to the clock, so a matched document is modified
_actualizar_cuenta_mongodb(docs, cuenta, falla) ==
    IF falla \/ cuenta.id \notin DOMAIN docs
    THEN [docs |-> docs, res |-> Resultado("actualizar", FALSE, <<FALSE>>)]
    ELSE [docs |-> Poner(docs, cuenta.id, to_dict(cuenta)),
          res |-> Resultado("actualizar", FALSE, <<TRUE>>)]

\* DatabaseManager._eliminar_cuenta_mongodb: delete_one
_eliminar_cuenta_mongodb(docs, id, falla) ==
    IF falla \/ id \notin DOMAIN docs
    THEN [docs |-> docs, res |-> Resultado("eliminar", FALSE, <<FALSE>>)]
    ELSE [docs |-> Quitar(docs, id), res |-> Resultado("eliminar", FALSE, <<TRUE>>)]

\* DatabaseManager._obtener_cuenta_json
_obtener_cuenta_json(cuentas, id) ==
    Resultado("obtener", FALSE, IF id \in DOMAIN cuentas THEN <<cuentas[id]>> ELSE <<>>)

\* the accounts a caller hands to crear_cuenta
CuentasM ==
    {[id |-> None, tipo_servicio |-> "Luz", monto |-> 1, fecha_emision |-> 0,
      fecha_vencimiento |-> 1, fecha_corte |-> None, fecha_lectura_proxima |-> fl,
      pagado |-> p, fecha_pago |-> IF p THEN 0 ELSE None] :
        fl \in FechasOpc, p \in BOOLEAN}

\* DatabaseManager._auto_migrate_from_json, auto_migrate being on as
\* env_config sets it: nothing without a file, nothing when the collection
\* has a document, nothing when the file has no record; otherwise every
\* record from_dict accepts is inserted and the file is copied beside itself
_auto_migrate_from_json(docs, archivo, migrados, t) ==
    IF ~archivo.existe \/ DOMAIN docs # {} \/ DOMAIN archivo.datos = {}
    THEN [docs |-> docs, migrados |-> migrados]
    ELSE [docs |-> [id \in {i \in DOMAIN archivo.datos : from_dict_ok(archivo.datos[i])} |->
                       to_dict(from_dict(archivo.datos[id], t))],
          migrados |-> migrados \cup {t}]

\* DatabaseManager.__init__ with db_type 'mongodb' and pymongo installed
DatabaseManager_init ==
    \E ping \in ResultadosPing :
        /\ mg_db_type = "sin_construir"
        /\ mg_ping' = ping
        /\ mg_db_type' = IF ping = "ok" THEN "mongodb"
                         ELSE IF ping \in {"ConnectionFailure", "ServerSelectionTimeoutError"}
                              THEN "json"
                         ELSE "excepcion"
        /\ db_cuentas' = IF ping \in {"ConnectionFailure", "ServerSelectionTimeoutError"}
                         THEN _load_json_data(db_archivo, now) ELSE db_cuentas
        /\ LET m == IF ping = "ok"
                    THEN _auto_migrate_from_json(mg_docs, db_archivo, mg_migrados, now)
                    ELSE [docs |-> mg_docs, migrados |-> mg_migrados]
           IN mg_docs' = m.docs /\ mg_migrados' = m.migrados
        /\ UNCHANGED <<now, varsL, varsB, varsN, varsR, varsV, varsD, varsH, db_archivo, db_backups, db_escrituras,
                       db_uuid, mg_res, mg_res_json>>

\* DatabaseManager.crear_cuenta on the constructed manager
DatabaseManager_crear_cuenta ==
    \E c \in CuentasM, falla \in BOOLEAN :
        /\ mg_db_type \in {"mongodb", "json"}
        /\ db_uuid < MaxEscrituras
        /\ LET cuenta == [c EXCEPT !.id = _generate_id(DbEstado)]
           IN IF mg_db_type = "mongodb"
              THEN /\ Cardinality(DOMAIN mg_docs) < MaxCuentas
                   /\ LET r == _crear_cuenta_mongodb(mg_docs, cuenta, falla)
                      IN mg_docs' = r.docs /\ mg_res' = r.res
                   /\ db_uuid' = db_uuid + 1
                   /\ UNCHANGED <<db_cuentas, db_archivo, db_backups, db_escrituras>>
              ELSE /\ Cardinality(DOMAIN db_cuentas) < MaxCuentas
                   /\ db_escrituras + 1 <= MaxEscrituras
                   /\ ~falla
                   /\ PonerDb(crear_cuenta(DbEstado, c, now))
                   /\ mg_res' = Resultado("crear", FALSE, <<cuenta.id>>)
                   /\ UNCHANGED mg_docs
        /\ UNCHANGED <<now, varsL, varsB, varsN, varsR, varsV, varsD, varsH, mg_db_type, mg_ping, mg_res_json, mg_migrados>>

\* DatabaseManager.obtener_cuenta on the constructed manager
DatabaseManager_obtener_cuenta ==
    \E id \in 1..MaxEscrituras, falla \in BOOLEAN :
        /\ mg_db_type \in {"mongodb", "json"}
        /\ mg_res' = IF mg_db_type = "mongodb"
                     THEN _obtener_cuenta_mongodb(mg_docs, id, falla, now)
                     ELSE _obtener_cuenta_json(db_cuentas, id)
        /\ UNCHANGED <<now, varsL, varsB, varsA, varsN, varsR, varsV, varsD, varsH, mg_db_type, mg_ping, mg_docs,
                       mg_res_json, mg_migrados>>

\* DatabaseManager.actualizar_cuenta on the constructed manager
DatabaseManager_actualizar_cuenta ==
    \E id \in 1..MaxEscrituras, c \in CuentasM, falla \in BOOLEAN :
        /\ mg_db_type \in {"mongodb", "json"}
        /\ LET cuenta == [c EXCEPT !.id = id]
           IN IF mg_db_type = "mongodb"
              THEN /\ LET r == _actualizar_cuenta_mongodb(mg_docs, cuenta, falla)
                      IN mg_docs' = r.docs /\ mg_res' = r.res
                   /\ UNCHANGED varsA
              ELSE /\ db_escrituras + 1 <= MaxEscrituras
                   /\ ~falla
                   /\ PonerDb(actualizar_cuenta(DbEstado, cuenta, now))
                   /\ mg_res' = Resultado("actualizar", FALSE, <<id \in DOMAIN db_cuentas>>)
                   /\ UNCHANGED mg_docs
        /\ UNCHANGED <<now, varsL, varsB, varsN, varsR, varsV, varsD, varsH, mg_db_type, mg_ping, mg_res_json, mg_migrados>>

\* DatabaseManager.eliminar_cuenta on the constructed manager
DatabaseManager_eliminar_cuenta ==
    \E id \in 1..MaxEscrituras, falla \in BOOLEAN :
        /\ mg_db_type \in {"mongodb", "json"}
        /\ IF mg_db_type = "mongodb"
           THEN /\ LET r == _eliminar_cuenta_mongodb(mg_docs, id, falla)
                   IN mg_docs' = r.docs /\ mg_res' = r.res
                /\ UNCHANGED varsA
           ELSE /\ db_escrituras + 1 <= MaxEscrituras
                /\ ~falla
                /\ PonerDb(eliminar_cuenta(DbEstado, id, now))
                /\ mg_res' = Resultado("eliminar", FALSE, <<id \in DOMAIN db_cuentas>>)
                /\ UNCHANGED mg_docs
        /\ UNCHANGED <<now, varsL, varsB, varsN, varsR, varsV, varsD, varsH, mg_db_type, mg_ping, mg_res_json, mg_migrados>>

\* main() returns after the window is closed: the manager and the accounts
\* it held in memory are gone, the file and the collection stay
main_retorna ==
    /\ mg_db_type # "sin_construir"
    /\ mg_db_type' = "sin_construir"
    /\ mg_ping' = "ninguno"
    /\ mg_res' = SinResultado
    /\ db_cuentas' = Vacio
    /\ UNCHANGED <<now, varsL, varsB, varsN, varsR, varsV, varsD, varsH, db_archivo, db_backups,
                   db_escrituras, db_uuid, mg_docs, mg_res_json, mg_migrados>>

\* ---- the same call made on two managers, one on each backend, without
\* storage faults; both draw the same ids
Ambos_crear_cuenta ==
    \E c \in CuentasM :
        /\ mg_db_type = "mongodb"
        /\ Cardinality(DOMAIN db_cuentas) < MaxCuentas
        /\ db_escrituras + 1 <= MaxEscrituras
        /\ LET cuenta == [c EXCEPT !.id = _generate_id(DbEstado)]
               r == _crear_cuenta_mongodb(mg_docs, cuenta, FALSE)
           IN /\ mg_docs' = r.docs
              /\ mg_res' = r.res
              /\ PonerDb(crear_cuenta(DbEstado, c, now))
              /\ mg_res_json' = Resultado("crear", FALSE, <<cuenta.id>>)
        /\ UNCHANGED <<now, varsL, varsB, varsN, varsR, varsV, varsD, varsH, mg_db_type, mg_ping, mg_migrados>>

Ambos_obtener_cuenta ==
    \E id \in 1..MaxEscrituras :
        /\ mg_db_type = "mongodb"
        /\ mg_res' = _obtener_cuenta_mongodb(mg_docs, id, FALSE, now)
        /\ mg_res_json' = _obtener_cuenta_json(db_cuentas, id)
        /\ UNCHANGED <<now, varsL, varsB, varsA, varsN, varsR, varsV, varsD, varsH, mg_db_type, mg_ping, mg_docs, mg_migrados>>

Ambos_actualizar_cuenta ==
    \E id \in 1..MaxEscrituras, c \in CuentasM :
        /\ mg_db_type = "mongodb"
        /\ db_escrituras + 1 <= MaxEscrituras
        /\ LET cuenta == [c EXCEPT !.id = id]
               r == _actualizar_cuenta_mongodb(mg_docs, cuenta, FALSE)
           IN /\ mg_docs' = r.docs
              /\ mg_res' = r.res
              /\ PonerDb(actualizar_cuenta(DbEstado, cuenta, now))
              /\ mg_res_json' = Resultado("actualizar", FALSE, <<id \in DOMAIN db_cuentas>>)
        /\ UNCHANGED <<now, varsL, varsB, varsN, varsR, varsV, varsD, varsH, mg_db_type, mg_ping, mg_migrados>>

Ambos_eliminar_cuenta ==
    \E id \in 1..MaxEscrituras :
        /\ mg_db_type = "mongodb"
        /\ db_escrituras + 1 <= MaxEscrituras
        /\ LET r == _eliminar_cuenta_mongodb(mg_docs, id, FALSE)
           IN /\ mg_docs' = r.docs
              /\ mg_res' = r.res
              /\ PonerDb(eliminar_cuenta(DbEstado, id, now))
              /\ mg_res_json' = Resultado("eliminar", FALSE, <<id \in DOMAIN db_cuentas>>)
        /\ UNCHANGED <<now, varsL, varsB, varsN, varsR, varsV, varsD, varsH, mg_db_type, mg_ping, mg_migrados>>

\* ============================== Generation B reminders (pure function)
\* datetime.date(): the day of an instant given in seconds
Fecha(t) == t \div SEGUNDOS_DIA

\* CuentaServicio.esta_vencida (domain/entities.py)
B_esta_vencida(c, t) == ~c.pagado /\ t > c.fecha_vencimiento

\* CuentaServicio.esta_en_riesgo_corte (domain/entities.py)
B_esta_en_riesgo_corte(c, t) ==
    IF c.pagado \/ c.fecha_corte = None THEN FALSE ELSE t >= c.fecha_corte

SinRecordatorios ==
    [vencen_hoy |-> <<>>, vencen_proximamente |-> <<>>, en_riesgo_corte |-> <<>>,
     vencidas |-> <<>>]

\* get_recordatorios_diarios with `if` where the code has its first `elif`
RECURSIVE RecordatoriosDesde_sin_elif(_, _, _, _)
RecordatoriosDesde_sin_elif(cuentas, i, hoy, r) ==
    IF i > Len(cuentas) THEN r
    ELSE LET cuenta == cuentas[i]
             r1 == IF ~cuenta.pagado /\ Fecha(cuenta.fecha_vencimiento) = Fecha(hoy)
                   THEN [r EXCEPT !.vencen_hoy = Append(@, i)] ELSE r
         IN RecordatoriosDesde_sin_elif(cuentas, i + 1, hoy,
              IF cuenta.pagado THEN r1
              ELSE IF Fecha(cuenta.fecha_vencimiento) - Fecha(hoy) <= vencimiento_dias_antes
                   THEN [r1 EXCEPT !.vencen_proximamente = Append(@, i)]
              ELSE IF B_esta_en_riesgo_corte(cuenta, hoy)
                   THEN [r1 EXCEPT !.en_riesgo_corte = Append(@, i)]
              ELSE IF B_esta_vencida(cuenta, hoy)
                   THEN [r1 EXCEPT !.vencidas = Append(@, i)]
              ELSE r1)

\* the loop of get_recordatorios_diarios from account i on; r is the
\* dictionary so far, an account is named by its position in the list
RECURSIVE RecordatoriosDesde(_, _, _, _)
RecordatoriosDesde(cuentas, i, hoy, r) ==
    IF i > Len(cuentas) THEN r
    ELSE LET cuenta == cuentas[i]
         IN RecordatoriosDesde(cuentas, i + 1, hoy,
              IF cuenta.pagado THEN r
              ELSE IF Fecha(cuenta.fecha_vencimiento) = Fecha(hoy)
                   THEN [r EXCEPT !.vencen_hoy = Append(@, i)]
              ELSE IF Fecha(cuenta.fecha_vencimiento) - Fecha(hoy) <= vencimiento_dias_antes
                   THEN [r EXCEPT !.vencen_proximamente = Append(@, i)]
              ELSE IF B_esta_en_riesgo_corte(cuenta, hoy)
                   THEN [r EXCEPT !.en_riesgo_corte = Append(@, i)]
              ELSE IF B_esta_vencida(cuenta, hoy)
                   THEN [r EXCEPT !.vencidas = Append(@, i)]
              ELSE r)

\* NotificationService.get_recordatorios_diarios
get_recordatorios_diarios(cuentas, hoy) ==
    RecordatoriosDesde(cuentas, 1, hoy, SinRecordatorios)

\* the inputs: instants on the day before today, today, tomorrow and a day
\* beyond the window
SeqHasta(S, n) == UNION {[1..k -> S] : k \in 1..n}
HoyR == {SEGUNDOS_DIA, SEGUNDOS_DIA + 1}
VencimientosR ==
    {0, SEGUNDOS_DIA, SEGUNDOS_DIA + 1, 2 * SEGUNDOS_DIA, MaxDiaR * SEGUNDOS_DIA}
CortesR == {None, SEGUNDOS_DIA - 1, SEGUNDOS_DIA + 1, (MaxDiaR + 1) * SEGUNDOS_DIA}
CuentasR ==
    [pagado : BOOLEAN, fecha_vencimiento : VencimientosR, fecha_corte : CortesR]

NotificationService_get_recordatorios_diarios ==
    /\ rd_pc = "inicio"
    /\ rd_recordatorios' = get_recordatorios_diarios(rd_cuentas, rd_hoy)
    /\ rd_pc' = "hecho"
    /\ UNCHANGED <<now, varsL, varsB, varsA, varsN, varsM, varsV, varsD, varsH, rd_cuentas, rd_hoy>>

\* ================================================= construction of an account
\* the rules of CuentaServicio.__post_init__, in the order of the code,
\* each with the condition that raises
ReglasPostInit(c, t) ==
    << [regla |-> "monto_mayor_a_0", falla |-> FloatLe(c.monto, 0)],
       [regla |-> "monto_maximo", falla |-> FloatGt(c.monto, MONTO_MAXIMO)],
       [regla |-> "vencimiento_posterior", falla |-> c.fecha_vencimiento <= c.fecha_emision],
       [regla |-> "emision_futura", falla |-> c.fecha_emision > t + DIAS_365],
       [regla |-> "emision_antigua", falla |-> c.fecha_emision < t - DIAS_3650],
       [regla |-> "lectura_anterior",
        falla |-> c.fecha_proxima_lectura # None /\ c.fecha_proxima_lectura < c.fecha_emision],
       [regla |-> "corte_anterior",
        falla |-> c.fecha_corte # None /\ c.fecha_corte < c.fecha_emision],
       [regla |-> "corte_30_dias",
        falla |-> c.fecha_corte # None /\ c.fecha_corte > c.fecha_vencimiento + DIAS_30],
       [regla |-> "descripcion_vacia", falla |-> c.descripcion = ""] >>

\* CuentaServicio.__post_init__: the messages of the ValueError raised, the
\* one of the first `if` that holds; empty when the constructor returns
post_init_error(c, t) ==
    LET R == ReglasPostInit(c, t)
        F == {i \in 1..Len(R) : R[i].falla}
    IN IF F = {} THEN <<>>
       ELSE << R[CHOOSE i \in F : \A j \in F : i <= j].regla >>

EntradaVacia ==
    [monto |-> 1, fecha_emision |-> 0, fecha_vencimiento |-> 1,
     fecha_proxima_lectura |-> None, fecha_corte |-> None, descripcion |-> "d"]

\* the arguments a caller can pass to the constructor
EntradasV ==
    [monto : Montos \cup {MONTO_MAXIMO + 1}, fecha_emision : Fechas,
     fecha_vencimiento : Fechas, fecha_proxima_lectura : {None} \cup Fechas,
     fecha_corte : {None} \cup Fechas \cup {MaxFecha + DIAS_30 + 1},
     descripcion : {"", "d"}]

\* a call of CuentaServicio(...)
CuentaServicio_post_init ==
    /\ pv_pc = "inicio"
    /\ pv_error' = post_init_error(pv_entrada, now)
    /\ pv_pc' = "construido"
    /\ UNCHANGED <<now, varsL, varsB, varsA, varsN, varsR, varsM, varsD, varsH, pv_entrada>>

\* ================================================= the Generation B window
\* CuentaTable.cargar_cuentas raises: mostrar_cuentas calls
\* cuenta.get_estado() on the first account, and the entity has no such
\* method (AttributeError)
CuentaTable_cargar_cuentas_lanza(cuentas) == DOMAIN cuentas # {}

\* the wrapper of handle_ui_errors: an exception of the handler is logged,
\* shown with messagebox.showerror, and None is returned
handle_ui_errors(lanza) == IF lanza THEN "dialogo_error" ELSE "normal"

\* a handler given to the menu as it is: its exception leaves the handler
llamada_directa(lanza) == IF lanza THEN "propaga" ELSE "normal"

Handler(nombre, fin) ==
    /\ hb_handler' = nombre
    /\ hb_fin' = fin

\* MainWindow.cargar_cuentas (Editar > Actualizar Lista), not decorated
MainWindow_cargar_cuentas ==
    /\ Handler("cargar_cuentas", llamada_directa(CuentaTable_cargar_cuentas_lanza(repo_cuentas)))
    /\ UNCHANGED <<now, varsL, varsB, varsA, varsN, varsR, varsV, varsM, varsD>>

\* MainWindow.mostrar_dialogo_nueva_cuenta, not decorated: the dialog is
\* built and waited for
MainWindow_mostrar_dialogo_nueva_cuenta ==
    /\ Handler("mostrar_dialogo_nueva_cuenta", llamada_directa(FALSE))
    /\ UNCHANGED <<now, varsL, varsB, varsA, varsN, varsR, varsV, varsM, varsD>>

\* MainWindow.editar_cuenta_seleccionada, not decorated: a warning when
\* nothing is selected, else the dialog on the selected account
MainWindow_editar_cuenta_seleccionada ==
    /\ Handler("editar_cuenta_seleccionada", llamada_directa(FALSE))
    /\ UNCHANGED <<now, varsL, varsB, varsA, varsN, varsR, varsV, varsM, varsD>>

\* MainWindow.marcar_como_pagada under its decorator: the account is
\* marked and stored, then cargar_cuentas reloads the table
MainWindow_marcar_como_pagada_handle_ui_errors ==
    \E sel \in {{}} \cup {{id} : id \in DOMAIN repo_cuentas} :
        /\ repo_escrituras + 1 <= MaxEscrituras
        /\ \A id \in sel : Len(repo_cuentas[id].historial) < MaxHistorial
        /\ IF sel = {}
           THEN Handler("marcar_como_pagada", handle_ui_errors(FALSE)) /\ UNCHANGED varsB
           ELSE LET id == CHOOSE x \in sel : TRUE
                    e == actualizar(RepoEstado, B_marcar_como_pagado(repo_cuentas[id], now), now)
                IN /\ PonerRepo(e)
                   /\ Handler("marcar_como_pagada",
                              handle_ui_errors(CuentaTable_cargar_cuentas_lanza(e.cuentas)))
        /\ UNCHANGED <<now, varsL, varsA, varsN, varsR, varsV, varsM, varsD>>

\* ================================================= the delete handlers
\* what a delete handler leaves behind: one more run, its name, its dialog
Borrado(ruta, dialogo) ==
    /\ dl_n' = dl_n + 1
    /\ dl_ruta' = ruta
    /\ dl_dialogo' = dialogo

RECURSIVE EliminarTodasB(_, _, _)
\* the loop `for cuenta in cuentas_seleccionadas: eliminar_cuenta(cuenta.id)`
\* on the Generation B repository
EliminarTodasB(e, ids, t) ==
    IF ids = {} THEN e
    ELSE LET id == CHOOSE x \in ids : TRUE
         IN EliminarTodasB(eliminar(e, id, t), ids \ {id}, t)

RECURSIVE EliminarTodasA(_, _, _)
\* the same loop on the Generation C DatabaseManager
EliminarTodasA(e, ids, t) ==
    IF ids = {} THEN e
    ELSE LET id == CHOOSE x \in ids : TRUE
         IN EliminarTodasA(eliminar_cuenta(e, id, t), ids \ {id}, t)

\* MainWindow.eliminar_cuenta_seleccionada (Generation B; the Eliminar
\* button and the Editar menu): sel holds the first selected row, and is
\* empty when nothing is selected; si is the answer to askyesno
MainWindow_eliminar_cuenta_seleccionada_askyesno ==
    \E sel \in {{}} \cup {{id} : id \in DOMAIN repo_cuentas}, si \in BOOLEAN :
        /\ dl_n < MaxBorrados
        /\ repo_escrituras + 1 <= MaxEscrituras
        /\ IF sel = {}
           THEN /\ Borrado("MainWindow.eliminar_cuenta_seleccionada", "no_mostrado")
                /\ Handler("eliminar_cuenta_seleccionada", handle_ui_errors(FALSE))
                /\ UNCHANGED varsB
           ELSE IF si
           THEN LET e == EliminarTodasB(RepoEstado, sel, now)
                IN /\ Borrado("MainWindow.eliminar_cuenta_seleccionada", "si")
                   /\ PonerRepo(e)
                   /\ Handler("eliminar_cuenta_seleccionada",
                              handle_ui_errors(CuentaTable_cargar_cuentas_lanza(e.cuentas)))
           ELSE /\ Borrado("MainWindow.eliminar_cuenta_seleccionada", "no")
                /\ Handler("eliminar_cuenta_seleccionada", handle_ui_errors(FALSE))
                /\ UNCHANGED varsB
        /\ UNCHANGED <<now, varsL, varsA, varsN, varsR, varsV, varsM>>

\* MainWindow.eliminar_cuentas_seleccionadas (Generation B, the bulk
\* button): CuentaTable has no obtener_cuentas_seleccionadas, the call
\* raises AttributeError on the first line and handle_ui_errors shows it
MainWindow_eliminar_cuentas_seleccionadas ==
    /\ dl_n < MaxBorrados
    /\ Borrado("MainWindow.eliminar_cuentas_seleccionadas", "no_mostrado")
    /\ Handler("eliminar_cuentas_seleccionadas", handle_ui_errors(TRUE))
    /\ UNCHANGED <<now, varsL, varsB, varsA, varsN, varsR, varsV, varsM>>

\* CuentaTable.on_delete_requested with the confirmation left out
CuentaTable_on_delete_requested_sin_confirmar ==
    \E sel \in {{}} \cup {{id} : id \in DOMAIN repo_cuentas}, si \in BOOLEAN :
        /\ dl_n < MaxBorrados
        /\ repo_escrituras + 1 <= MaxEscrituras
        /\ IF sel = {}
           THEN Borrado("CuentaTable.on_delete_requested", "no_mostrado")
                /\ UNCHANGED varsB
           ELSE Borrado("CuentaTable.on_delete_requested", IF si THEN "si" ELSE "no")
                /\ PonerRepo(EliminarTodasB(RepoEstado, sel, now))
        /\ UNCHANGED <<now, varsL, varsA, varsN, varsR, varsV, varsM, varsH>>

\* CuentaTable.on_delete_requested (Generation B, the context menu)
CuentaTable_on_delete_requested ==
    \E sel \in {{}} \cup {{id} : id \in DOMAIN repo_cuentas}, si \in BOOLEAN :
        /\ dl_n < MaxBorrados
        /\ repo_escrituras + 1 <= MaxEscrituras
        /\ IF sel = {}
           THEN Borrado("CuentaTable.on_delete_requested", "no_mostrado")
                /\ UNCHANGED varsB
           ELSE IF si
           THEN Borrado("CuentaTable.on_delete_requested", "si")
                /\ PonerRepo(EliminarTodasB(RepoEstado, sel, now))
           ELSE Borrado("CuentaTable.on_delete_requested", "no")
                /\ UNCHANGED varsB
        /\ UNCHANGED <<now, varsL, varsA, varsN, varsR, varsV, varsM, varsH>>

\* CrudOperations.eliminar_cuenta (Generation C; the Eliminar button,
\* Control-d and the context menu of EventHandlers): sel is the set of
\* selected accounts
CrudOperations_eliminar_cuenta_askyesno ==
    \E sel \in SUBSET DOMAIN db_cuentas, si \in BOOLEAN :
        /\ tk_ventana = "abierta"
        /\ dl_n < MaxBorrados
        /\ db_escrituras + Cardinality(sel) <= MaxEscrituras
        /\ IF sel = {}
           THEN Borrado("CrudOperations.eliminar_cuenta", "no_mostrado")
                /\ UNCHANGED <<varsA, ui_toques>>
           ELSE IF si
           THEN Borrado("CrudOperations.eliminar_cuenta", "si")
                /\ PonerDb(EliminarTodasA(DbEstado, sel, now))
                /\ _load_data
           ELSE Borrado("CrudOperations.eliminar_cuenta", "no")
                /\ UNCHANGED <<varsA, ui_toques>>
        /\ UNCHANGED <<now, varsL, varsB, varsNM, varsR, varsV, varsM, varsH>>

\* MainWindow._eliminar_cuenta (Generation C, the context menu of the
\* main window's table)
MainWindow__eliminar_cuenta ==
    \E sel \in SUBSET DOMAIN db_cuentas, si \in BOOLEAN :
        /\ tk_ventana = "abierta"
        /\ dl_n < MaxBorrados
        /\ db_escrituras + Cardinality(sel) <= MaxEscrituras
        /\ IF sel = {}
           THEN Borrado("MainWindow._eliminar_cuenta", "no_mostrado")
                /\ UNCHANGED <<varsA, ui_toques>>
           ELSE IF si
           THEN Borrado("MainWindow._eliminar_cuenta", "si")
                /\ PonerDb(EliminarTodasA(DbEstado, sel, now))
                /\ _load_data
           ELSE Borrado("MainWindow._eliminar_cuenta", "no")
                /\ UNCHANGED <<varsA, ui_toques>>
        /\ UNCHANGED <<now, varsL, varsB, varsNM, varsR, varsV, varsM, varsH>>

\* EnhancedCuentaTable._on_key_press, the Delete key (Generation C):
\* on_delete is the bound method MainWindow._eliminar_cuenta, which takes
\* no argument, so on_delete(self.selected_cuenta) raises TypeError before
\* the handler's first line
EnhancedCuentaTable__on_key_press ==
    /\ tk_ventana = "abierta"
    /\ dl_n < MaxBorrados
    /\ Borrado("EnhancedCuentaTable._on_key_press", "no_mostrado")
    /\ UNCHANGED <<now, varsL, varsB, varsA, varsN, varsR, varsV, varsM, varsH>>

RECURSIVE RepoCon(_)
\* the Generation B store after an account of each of the given types
\* was created
RepoCon(tipos) ==
    IF tipos = {}
    THEN [cuentas |-> Vacio, archivo |-> SinArchivo, backups |-> {}, escrituras |-> 0]
    ELSE LET tipo == CHOOSE x \in tipos : TRUE
         IN guardar(RepoCon(tipos \ {tipo}), NuevaCuentaB(tipo, 0, 1, 1, 0), 0)

RECURSIVE DbCon(_)
\* the Generation C store after n accounts were created
DbCon(n) ==
    IF n = 0
    THEN [cuentas |-> Vacio, archivo |-> SinArchivo, backups |-> {}, escrituras |-> 0,
          uuid |-> 0]
    ELSE crear_cuenta(DbCon(n - 1),
                      CuentaDialog_save(FALSE, Vacio, "Luz", 1, 0, 1, None, None, FALSE), 0)

\* ================================================= status of an account
\* CuentaServicio.get_estado with the cutoff test ahead of the due test
get_estado_corte_primero(c, t) ==
    IF c.pagado THEN "Pagado"
    ELSE IF c.fecha_corte # None /\ t >= c.fecha_corte THEN "En Riesgo de Corte"
    ELSE IF t > c.fecha_vencimiento THEN "Vencido"
    ELSE "Pendiente"

\* CuentaServicio.get_estado (models.py), the clock reading t
get_estado(c, t) ==
    IF c.pagado THEN "Pagado"
    ELSE IF t > c.fecha_vencimiento THEN "Vencido"
    ELSE IF c.fecha_corte # None /\ t >= c.fecha_corte THEN "En Riesgo de Corte"
    ELSE "Pendiente"

\* the accounts get_estado is called on
CuentasS ==
    [pagado : BOOLEAN, fecha_vencimiento : Fechas,
     fecha_corte : {None} \cup 0..(MaxFecha + 1)]

\* accounts with the fields validar_cuenta reads as well
CuentasY ==
    [pagado : BOOLEAN, monto : {0, 1}, fecha_emision : Fechas, fecha_vencimiento : Fechas,
     fecha_corte : {None} \cup 0..(MaxFecha + 1)]

\* a call of cuenta.get_estado(): the value returned and the clock it read
CuentaServicio_get_estado ==
    /\ ll_pc = "inicio"
    /\ ll_ret' = [valor |-> get_estado(ll_args, now), reloj |-> now]
    /\ ll_pc' = "retornado"
    /\ UNCHANGED <<now, varsB, varsA, varsN, varsR, varsM, varsD, varsH, varsV, ll_args>>

\* ================================================= search
\* texts are sequences of characters; str.lower on one character
lower(ch) == IF ch = "L" THEN "l" ELSE ch

\* Python's `sub in s` on lowered texts, sub already lowered
EstaEn(sub, s) ==
    \E i \in 1..(Len(s) + 1 - Len(sub)) :
        \A k \in 1..Len(sub) : sub[k] = lower(s[i + k - 1])

\* MongoDB's {"$regex": termino, "$options": "i"} on a field: the term is a
\* regular expression searched anywhere in the text, "." matches any
\* character, a letter matches itself in either case
RegexEn(termino, s) ==
    \E i \in 1..(Len(s) + 1 - Len(termino)) :
        \A k \in 1..Len(termino) :
            termino[k] = "." \/ lower(termino[k]) = lower(s[i + k - 1])

\* TipoServicio.LUZ.value
EtiquetaLuz == <<"L", "u", "z">>

\* DatabaseManager._buscar_cuentas_json (database_mongodb.py): the indexes
\* of the accounts returned
_buscar_cuentas_json(cuentas, termino) ==
    LET t == [k \in 1..Len(termino) |-> lower(termino[k])]
    IN {i \in 1..Len(cuentas) :
           \/ EstaEn(t, cuentas[i].descripcion)
           \/ EstaEn(t, cuentas[i].observaciones)
           \/ EstaEn(t, cuentas[i].tipo_servicio)}

\* DatabaseManager._buscar_cuentas_mongodb (database_mongodb.py)
_buscar_cuentas_mongodb(cuentas, termino) ==
    {i \in 1..Len(cuentas) :
        \/ RegexEn(termino, cuentas[i].descripcion)
        \/ RegexEn(termino, cuentas[i].observaciones)
        \/ RegexEn(termino, cuentas[i].tipo_servicio)}

\* QueryOperations._buscar_cuentas_json (database/query_operations.py)
QueryOperations_buscar_cuentas_json(cuentas, termino) ==
    LET t == [k \in 1..Len(termino) |-> lower(termino[k])]
    IN {i \in 1..Len(cuentas) :
           \/ EstaEn(t, cuentas[i].descripcion)
           \/ EstaEn(t, cuentas[i].observaciones)}

\* QueryOperations._buscar_cuentas_mongodb (database/query_operations.py)
QueryOperations_buscar_cuentas_mongodb(cuentas, termino) ==
    {i \in 1..Len(cuentas) :
        \/ RegexEn(termino, cuentas[i].descripcion)
        \/ RegexEn(termino, cuentas[i].observaciones)}

\* buscar_cuentas of either manager on either backend
buscar_cuentas(gestor, backend, cuentas, termino) ==
    IF gestor = "database_mongodb"
    THEN IF backend = "mongodb" THEN _buscar_cuentas_mongodb(cuentas, termino)
         ELSE _buscar_cuentas_json(cuentas, termino)
    ELSE IF backend = "mongodb" THEN QueryOperations_buscar_cuentas_mongodb(cuentas, termino)
         ELSE QueryOperations_buscar_cuentas_json(cuentas, termino)

\* the texts typed in a field or in the search box
Textos == UNION {[1..n -> {"l", "L", "."}] : n \in 0..MaxTexto}

CuentasQ == [descripcion : Textos \ {<<>>}, observaciones : {<<>>, <<"l">>}, tipo_servicio : {EtiquetaLuz}]

LlamadasQ ==
    [gestor : {"database_mongodb", "database_manager"}, backend : {"json", "mongodb"},
     cuentas : SeqHasta(CuentasQ, MaxBuscadas), termino : Textos]

\* a call of DatabaseManager.buscar_cuentas
DatabaseManager_buscar_cuentas ==
    /\ ll_pc = "inicio"
    /\ ll_ret' = buscar_cuentas(ll_args.gestor, ll_args.backend, ll_args.cuentas,
                                ll_args.termino)
    /\ ll_pc' = "retornado"
    /\ UNCHANGED <<now, varsB, varsA, varsN, varsR, varsM, varsD, varsH, varsV, ll_args>>

\* ================================================= monthly summary
\* _obtener_por_mes_json: the accounts whose issue date has that month and
\* year, in the order of the store
RECURSIVE _obtener_por_mes_json(_, _, _)
_obtener_por_mes_json(cuentas, mes, anio) ==
    IF cuentas = <<>> THEN <<>>
    ELSE LET c == Head(cuentas)
             resto == _obtener_por_mes_json(Tail(cuentas), mes, anio)
         IN IF c.fecha_emision.month = mes /\ c.fecha_emision.year = anio
            THEN <<c>> \o resto ELSE resto

\* the loop of DatabaseManager.obtener_resumen_mensual over cuentas_mes,
\* from the summary r
RECURSIVE ResumenDesde(_, _, _)
ResumenDesde(cuentas_mes, r, t) ==
    IF cuentas_mes = <<>> THEN r
    ELSE LET c == Head(cuentas_mes)
             r1 == [r EXCEPT !.total_gastos = @ + c.monto]
             r2 == IF c.pagado
                   THEN [r1 EXCEPT !.total_pagado = @ + c.monto, !.cuentas_pagadas = @ + 1]
                   ELSE [r1 EXCEPT !.total_pendiente = @ + c.monto,
                                   !.cuentas_pendientes = @ + 1,
                                   !.cuentas_vencidas =
                                       IF get_estado(c, t) = "Vencido" THEN @ + 1 ELSE @]
         IN ResumenDesde(Tail(cuentas_mes), r2, t)

\* ResumenMensual(mes=mes, año=año)
ResumenMensual(mes, anio) ==
    [lanza |-> FALSE, mes |-> mes, anio |-> anio, total_gastos |-> 0, total_pagado |-> 0,
     total_pendiente |-> 0, cuentas_pagadas |-> 0, cuentas_pendientes |-> 0,
     cuentas_vencidas |-> 0]

\* DatabaseManager.obtener_resumen_mensual (database_mongodb.py)
obtener_resumen_mensual(cuentas, mes, anio, t) ==
    ResumenDesde(_obtener_por_mes_json(cuentas, mes, anio), ResumenMensual(mes, anio), t)

\* StatisticsManager.obtener_resumen_mensual: the totals are computed, then
\* ResumenMensual is called with the keyword total_cuentas, which the
\* dataclass does not have: TypeError
StatisticsManager_obtener_resumen_mensual(cuentas, mes, anio, t) ==
    [ResumenMensual(mes, anio) EXCEPT !.lanza = TRUE]

FechasEmisionU == {[month |-> 1, year |-> 2024], [month |-> 2, year |-> 2024],
                   [month |-> 1, year |-> 2025]}

CuentasU ==
    [fecha_emision : FechasEmisionU, fecha_vencimiento : Fechas, monto : {1, 2},
     pagado : BOOLEAN, fecha_corte : {None}]

LlamadasU ==
    [gestor : {"database_mongodb", "database_manager"},
     cuentas : SeqHasta(CuentasU, MaxResumidas), mes : {1}, anio : {2024}]

\* a call of DatabaseManager.obtener_resumen_mensual on the JSON backend
DatabaseManager_obtener_resumen_mensual ==
    /\ ll_pc = "inicio"
    /\ ll_ret' = [resumen |->
                     IF ll_args.gestor = "database_mongodb"
                     THEN obtener_resumen_mensual(ll_args.cuentas, ll_args.mes,
                                                  ll_args.anio, now)
                     ELSE StatisticsManager_obtener_resumen_mensual(
                              ll_args.cuentas, ll_args.mes, ll_args.anio, now),
                  reloj |-> now]
    /\ ll_pc' = "retornado"
    /\ UNCHANGED <<now, varsB, varsA, varsN, varsR, varsM, varsD, varsH, varsV, ll_args>>

\* ================================================= path confinement
\* A text is a sequence of characters, a file or directory name is the
\* sequence of the texts between its dots (str.split('.')), a path is the
\* sequence of its names.
Minusculas == <<"a", "c", "d", "e", "j", "l", "n", "o", "p", "s", "u", "x">>
Mayusculas == <<"A", "C", "D", "E", "J", "L", "N", "O", "P", "S", "U", "X">>

\* str.upper and str.lower on one character
str_upper(ch) ==
    IF \E i \in DOMAIN Minusculas : Minusculas[i] = ch
    THEN Mayusculas[CHOOSE i \in DOMAIN Minusculas : Minusculas[i] = ch] ELSE ch

str_lower(ch) ==
    IF \E i \in DOMAIN Mayusculas : Mayusculas[i] = ch
    THEN Minusculas[CHOOSE i \in DOMAIN Mayusculas : Mayusculas[i] = ch] ELSE ch

Digitos19 == {"1", "2", "3", "4", "5", "6", "7", "8", "9"}

\* nombres_reservados of validar_nombre_archivo
nombres_reservados ==
    {<<"C", "O", "N">>, <<"P", "R", "N">>, <<"A", "U", "X">>, <<"N", "U", "L">>}
    \cup {<<"C", "O", "M", d>> : d \in Digitos19}
    \cup {<<"L", "P", "T", d>> : d \in Digitos19}

\* the characters of the class [<>:"/\|?*]
CaracteresPeligrosos == {"<", ">", ":", "\"", "/", "\\", "|", "?", "*"}

\* the name "." + "." : two dots split into three empty texts
DosPuntos == << <<>>, <<>>, <<>> >>

\* SecurityManager.validar_nombre_archivo with the comparison made on the
\* name as typed
validar_nombre_archivo_sin_upper(nombre) ==
    /\ nombre # << <<>> >>
    /\ \A i \in DOMAIN nombre : \A k \in DOMAIN nombre[i] :
           nombre[i][k] \notin CaracteresPeligrosos
    /\ nombre[1] \notin nombres_reservados

\* SecurityManager.validar_nombre_archivo
validar_nombre_archivo(nombre) ==
    /\ nombre # << <<>> >>
    /\ \A i \in DOMAIN nombre : \A k \in DOMAIN nombre[i] :
           nombre[i][k] \notin CaracteresPeligrosos
    /\ [k \in DOMAIN nombre[1] |-> str_upper(nombre[1][k])] \notin nombres_reservados

\* the directories of the file system of the model, under the working
\* directory: data, reports, otro, and data/enlace, a symbolic link to otro
DirData == << <<"d", "a">> >>
DirReports == << <<"r", "e">> >>
DirOtro == << <<"o">> >>
DirEnlace == << <<"e", "n">> >>

\* Path(...).resolve() from the working directory <<>>: ".." goes up, a
\* symbolic link is replaced by its target
RECURSIVE resolve(_, _)
resolve(base, ruta) ==
    IF ruta = <<>> THEN base
    ELSE LET n == Head(ruta)
             sube == IF base = <<>> THEN <<>> ELSE SubSeq(base, 1, Len(base) - 1)
             baja == IF base = <<DirData>> /\ n = DirEnlace THEN <<DirOtro>>
                     ELSE Append(base, n)
         IN resolve(IF n = DosPuntos THEN sube ELSE baja, Tail(ruta))

\* PurePath.is_relative_to
is_relative_to(path, dir) ==
    Len(path) >= Len(dir) /\ SubSeq(path, 1, Len(dir)) = dir

\* PurePath.suffix, lowered: the text after the last dot, when that dot is
\* neither the first nor the last character of the name; <<>> otherwise
suffix_lower(nombre) ==
    IF /\ Len(nombre) >= 2
       /\ nombre[Len(nombre)] # <<>>
       /\ ~(Len(nombre) = 2 /\ nombre[1] = <<>>)
    THEN [k \in DOMAIN nombre[Len(nombre)] |-> str_lower(nombre[Len(nombre)][k])]
    ELSE <<>>

\* self.allowed_extensions
allowed_extensions == {<<"j", "s", "o", "n">>, <<"p", "d", "f">>, <<"t", "x", "t">>}

\* SecurityManager.validar_ruta_archivo, data_dir and reports_dir being
\* the defaults resolved at construction
validar_ruta_archivo(filepath) ==
    LET path == resolve(<<>>, filepath)
    IN /\ is_relative_to(path, <<DirData>>) \/ is_relative_to(path, <<DirReports>>)
       /\ path # <<>>
       /\ suffix_lower(path[Len(path)]) \in allowed_extensions
       /\ validar_nombre_archivo(path[Len(path)])

\* the names the user can give
BasesW == {<<"c", "o", "n">>, <<"C", "o", "N">>, <<"N", "U", "L">>, <<"l", "p", "t", "1">>,
           <<"c", "o", "n", "e">>, <<"a">>, <<"a", ":">>}
ExtensionesW == {<<>>, << <<"j", "s", "o", "n">> >>, << <<"J", "S", "O", "N">> >>,
                 << <<"a">>, <<"j", "s", "o", "n">> >>, << <<"e", "x", "e">> >>}
ArchivosW == {<<b>> \o e : b \in BasesW, e \in ExtensionesW}
DirectoriosW == {DirData, DirReports, DirOtro, DirEnlace, DosPuntos}
RutasW ==
    {d \o <<a>> : d \in UNION {[1..n -> DirectoriosW] : n \in 0..MaxRuta}, a \in ArchivosW}

\* a call of security_manager.validar_ruta_archivo
SecurityManager_validar_ruta_archivo ==
    /\ ll_pc = "inicio"
    /\ ll_ret' = [valor |-> validar_ruta_archivo(ll_args)]
    /\ ll_pc' = "retornado"
    /\ UNCHANGED <<now, varsB, varsA, varsN, varsR, varsM, varsD, varsH, varsV, ll_args>>

\* ================================================= JSON write failures
\* where _save_json_data can raise: in the copy of the backup, in open(),
\* or in json.dump after open() has emptied the file
PuntosFalla == {"copy2", "open", "dump"}

\* DatabaseManager._save_json_data raising at punto: the exception is
\* printed and raised again; what was done before punto stays done
_save_json_data_falla(e, t, punto) ==
    IF punto = "copy2" THEN e
    ELSE IF punto = "open"
    THEN [e EXCEPT !.backups = _create_backup(e.archivo, e.backups, t)]
    ELSE [e EXCEPT !.backups = _create_backup(e.archivo, e.backups, t),
                   !.archivo = [existe |-> TRUE, datos |-> Vacio, seg |-> t,
                                mtime |-> e.escrituras + 1],
                   !.escrituras = e.escrituras + 1]

\* _save_json_data, with punto saying whether and where it raises
Guardar(e, t, punto) ==
    IF punto = "ninguno" THEN _save_json_data(e, t) ELSE _save_json_data_falla(e, t, punto)

\* the accounts a caller hands to crear_cuenta and actualizar_cuenta
CuentasK == {c \in CuentasM : c.fecha_lectura_proxima = None}

\* DatabaseManager.crear_cuenta on the JSON backend
DatabaseManager_crear_cuenta_json ==
    \E c \in CuentasK, punto \in PuntosFalla \cup {"ninguno"} :
        /\ ll_pc = "inicio"
        /\ Cardinality(DOMAIN db_cuentas) < MaxCuentas
        /\ db_escrituras + 1 <= MaxEscrituras
        /\ db_uuid < MaxEscrituras
        /\ LET cuenta == [c EXCEPT !.id = _generate_id(DbEstado)]
           IN /\ PonerDb(Guardar([DbEstado EXCEPT !.cuentas = Poner(@, cuenta.id, cuenta),
                                                  !.uuid = @ + 1], now, punto))
              /\ ll_args' = [op |-> "crear_cuenta", id |-> cuenta.id]
              /\ ll_ret' = Resultado("crear", punto # "ninguno",
                                     IF punto = "ninguno" THEN <<cuenta.id>> ELSE <<>>)
        /\ ll_pc' = "retornado"
        /\ UNCHANGED <<now, varsB, varsN, varsR, varsM, varsD, varsH, varsV>>

\* DatabaseManager.actualizar_cuenta on the JSON backend
DatabaseManager_actualizar_cuenta_json ==
    \E id \in 1..MaxEscrituras, c \in CuentasK, punto \in PuntosFalla \cup {"ninguno"} :
        /\ ll_pc = "inicio"
        /\ db_escrituras + 1 <= MaxEscrituras
        /\ IF id \in DOMAIN db_cuentas
           THEN /\ PonerDb(Guardar([DbEstado EXCEPT !.cuentas = Poner(@, id, [c EXCEPT !.id = id])],
                                   now, punto))
                /\ ll_ret' = Resultado("actualizar", punto # "ninguno",
                                       IF punto = "ninguno" THEN <<TRUE>> ELSE <<>>)
           ELSE /\ punto = "ninguno"
                /\ ll_ret' = Resultado("actualizar", FALSE, <<FALSE>>)
                /\ UNCHANGED varsA
        /\ ll_args' = [op |-> "actualizar_cuenta", id |-> id]
        /\ ll_pc' = "retornado"
        /\ UNCHANGED <<now, varsB, varsN, varsR, varsM, varsD, varsH, varsV>>

\* DatabaseManager.eliminar_cuenta on the JSON backend
DatabaseManager_eliminar_cuenta_json ==
    \E id \in 1..MaxEscrituras, punto \in PuntosFalla \cup {"ninguno"} :
        /\ ll_pc = "inicio"
        /\ db_escrituras + 1 <= MaxEscrituras
        /\ IF id \in DOMAIN db_cuentas
           THEN /\ PonerDb(Guardar([DbEstado EXCEPT !.cuentas = Quitar(@, id)], now, punto))
                /\ ll_ret' = Resultado("eliminar", punto # "ninguno",
                                       IF punto = "ninguno" THEN <<TRUE>> ELSE <<>>)
           ELSE /\ punto = "ninguno"
                /\ ll_ret' = Resultado("eliminar", FALSE, <<FALSE>>)
                /\ UNCHANGED varsA
        /\ ll_args' = [op |-> "eliminar_cuenta", id |-> id]
        /\ ll_pc' = "retornado"
        /\ UNCHANGED <<now, varsB, varsN, varsR, varsM, varsD, varsH, varsV>>

\* ================================================= rows of the table
\* the longest description the table shows whole (_truncate_text(..., 30))
max_length_descripcion == 30

\* EnhancedCuentaTable._truncate_text
_truncate_text(text, max_length) ==
    IF Len(text) <= max_length THEN text
    ELSE SubSeq(text, 1, max_length - 3) \o <<".", ".", ".">>

\* str.replace("...", "")
RECURSIVE replace_puntos(_)
replace_puntos(s) ==
    IF s = <<>> THEN <<>>
    ELSE IF Len(s) >= 3 /\ SubSeq(s, 1, 3) = <<".", ".", ".">>
    THEN replace_puntos(SubSeq(s, 4, Len(s)))
    ELSE <<Head(s)>> \o replace_puntos(Tail(s))

\* str.strip()
RECURSIVE strip(_)
strip(s) ==
    IF s = <<>> THEN <<>>
    ELSE IF Head(s) = " " THEN strip(Tail(s))
    ELSE IF s[Len(s)] = " " THEN strip(SubSeq(s, 1, Len(s) - 1))
    ELSE s

\* Python's `sub in s`
Subcadena(sub, s) ==
    \E i \in 1..(Len(s) + 1 - Len(sub)) : SubSeq(s, i, i + Len(sub) - 1) = sub

\* An amount is a number of half pesos. format_currency shows the amount
\* rounded to whole pesos, ties to the even one (f"{amount:,.0f}"): the
\* number of pesos shown
format_currency(monto) ==
    IF monto % 2 = 0 THEN monto \div 2
    ELSE IF (monto \div 2) % 2 = 0 THEN monto \div 2 ELSE monto \div 2 + 1

\* float() of the text shown, its "$", "." and "," removed
monto_valor(mostrado) == 2 * mostrado

\* the values of the row of an account that the lookup reads
valores_fila(cuenta) ==
    [descripcion |-> _truncate_text(cuenta.descripcion, max_length_descripcion),
     monto |-> format_currency(cuenta.monto)]

\* MainWindow._get_cuenta_from_item: the position in cuentas_actuales of
\* the first account whose description contains the text shown and whose
\* amount is the amount shown; 0 for None
_get_cuenta_from_item(cuentas_actuales, values) ==
    LET descripcion_limpia == strip(replace_puntos(values.descripcion))
        coincide(i) == /\ Subcadena(descripcion_limpia, cuentas_actuales[i].descripcion)
                       /\ cuentas_actuales[i].monto = monto_valor(values.monto)
    IN IF \E i \in DOMAIN cuentas_actuales : coincide(i)
       THEN CHOOSE i \in DOMAIN cuentas_actuales :
                coincide(i) /\ \A j \in 1..(i - 1) : ~coincide(j)
       ELSE 0

\* MainWindow._get_selected_cuentas: the accounts found for the selected
\* rows; a row is named by the position of the account it was made from
_get_selected_cuentas(cuentas_actuales, filas) ==
    {_get_cuenta_from_item(cuentas_actuales, valores_fila(cuentas_actuales[f])) : f \in filas}
        \ {0}

\* MainWindow._get_selected_cuenta: the account found for selection[0]
_get_selected_cuenta(cuentas_actuales, filas) ==
    IF filas = {} THEN 0
    ELSE LET primera == CHOOSE f \in filas : \A g \in filas : f <= g
         IN _get_cuenta_from_item(cuentas_actuales, valores_fila(cuentas_actuales[primera]))

DescripcionesF == {<<"a">>, <<"a", "b">>}
MontosF == {2, 3, 4}
CuentasF == [descripcion : DescripcionesF, monto : MontosF, pagado : BOOLEAN]

\* the store as the handlers leave it: the accounts by position
Almacen(cuentas) == [i \in DOMAIN cuentas |-> cuentas[i]]

LlamadasF ==
    {[cuentas |-> cs, filas |-> fs] :
        cs \in SeqHasta(CuentasF, MaxFilas), fs \in SUBSET (1..MaxFilas)}

\* CrudOperations.editar_cuenta on the selected rows: the dialog returns
\* the account with another amount
CrudOperations_editar_cuenta_fila ==
    \E monto \in MontosF, acepta \in BOOLEAN :
        /\ ll_pc = "inicio"
        /\ LET i == _get_selected_cuenta(ll_args.cuentas, ll_args.filas)
               a == Almacen(ll_args.cuentas)
           IN ll_ret' = [op |-> "editar", confirmado |-> (i # 0 /\ acepta),
                         cuentas |-> IF i # 0 /\ acepta
                                     THEN [a EXCEPT ![i].monto = monto] ELSE a]
        /\ ll_pc' = "retornado"
        /\ UNCHANGED <<now, varsB, varsA, varsN, varsR, varsM, varsD, varsH, varsV, ll_args>>

\* CrudOperations.marcar_pagado on the selected rows
CrudOperations_marcar_pagado_fila ==
    \E si \in BOOLEAN :
        /\ ll_pc = "inicio"
        /\ LET i == _get_selected_cuenta(ll_args.cuentas, ll_args.filas)
               a == Almacen(ll_args.cuentas)
           IN ll_ret' = [op |-> "marcar_pagado", confirmado |-> (i # 0 /\ ~a[i].pagado /\ si),
                         cuentas |-> IF i # 0 /\ ~a[i].pagado /\ si
                                     THEN [a EXCEPT ![i].pagado = TRUE] ELSE a]
        /\ ll_pc' = "retornado"
        /\ UNCHANGED <<now, varsB, varsA, varsN, varsR, varsM, varsD, varsH, varsV, ll_args>>

\* CrudOperations.eliminar_cuenta on the selected rows
CrudOperations_eliminar_cuenta_filas ==
    \E si \in BOOLEAN :
        /\ ll_pc = "inicio"
        /\ LET sel == _get_selected_cuentas(ll_args.cuentas, ll_args.filas)
               a == Almacen(ll_args.cuentas)
           IN ll_ret' = [op |-> "eliminar", confirmado |-> (sel # {} /\ si),
                         cuentas |-> IF sel # {} /\ si
                                     THEN [i \in DOMAIN a \ sel |-> a[i]] ELSE a]
        /\ ll_pc' = "retornado"
        /\ UNCHANGED <<now, varsB, varsA, varsN, varsR, varsM, varsD, varsH, varsV, ll_args>>

Tick ==
    /\ now < MaxTime
    /\ now' = now + 1
    /\ UNCHANGED <<varsB, varsA, varsN, varsP>>

\* the application after construction
InitApp ==
    /\ now = 0
    /\ repo_cuentas = Vacio
    /\ repo_archivo = SinArchivo
    /\ repo_backups = {}
    /\ repo_escrituras = 0
    /\ db_cuentas = Vacio
    /\ db_archivo = SinArchivo
    /\ db_backups = {}
    /\ db_escrituras = 0
    /\ db_uuid = 0
    /\ nm_running = TRUE
    /\ nm_thread = 1
    /\ nm_callbacks = <<"_on_notifications_received">>
    /\ nm_hilos = <<"while">>
    /\ nm_tam = <<0>>
    /\ nm_join = FALSE
    /\ tk_after = 0
    /\ tk_ventana = "abierta"
    /\ indicator_count = 0
    /\ ui_toques = {Toque("status_label", "main")}

\* get_recordatorios_diarios not called, on no accounts
InitRdSinLlamar ==
    /\ rd_cuentas = <<>>
    /\ rd_hoy = 0
    /\ rd_recordatorios = SinRecordatorios
    /\ rd_pc = "inicio"

\* no DatabaseManager configured for MongoDB constructed yet
InitMongoSinConstruir ==
    /\ mg_db_type = "sin_construir"
    /\ mg_ping = "ninguno"
    /\ mg_docs = Vacio
    /\ mg_res = SinResultado
    /\ mg_res_json = SinResultado
    /\ mg_migrados = {}

\* no delete handler has run
InitSinBorrar ==
    /\ dl_n = 0
    /\ dl_ruta = "ninguna"
    /\ dl_dialogo = "no_mostrado"

\* the event loop has called no handler of the Generation B window
InitSinHandler ==
    /\ hb_handler = "ninguno"
    /\ hb_fin = "normal"

\* no query function has been called
InitSinLlamada ==
    /\ ll_args = <<>>
    /\ ll_ret = <<>>
    /\ ll_pc = "inicio"

\* no account is being constructed
InitSinConstruir ==
    /\ pv_entrada = EntradaVacia
    /\ pv_error = <<>>
    /\ pv_pc = "inicio"

Init ==
    /\ InitApp
    /\ InitRdSinLlamar
    /\ InitMongoSinConstruir
    /\ InitSinBorrar
    /\ InitSinHandler
    /\ InitSinLlamada
    /\ InitSinConstruir

\* everything but the query call, as after construction
InitResto ==
    /\ InitApp
    /\ InitRdSinLlamar
    /\ InitMongoSinConstruir
    /\ InitSinBorrar
    /\ InitSinHandler
    /\ InitSinConstruir

\* get_estado about to be called on some account
InitS ==
    /\ InitResto
    /\ ll_args \in CuentasS
    /\ ll_ret = <<>>
    /\ ll_pc = "inicio"

\* buscar_cuentas about to be called
InitQ ==
    /\ InitResto
    /\ ll_args \in LlamadasQ
    /\ ll_ret = <<>>
    /\ ll_pc = "inicio"

\* obtener_resumen_mensual about to be called
InitU ==
    /\ InitResto
    /\ ll_args \in LlamadasU
    /\ ll_ret = <<>>
    /\ ll_pc = "inicio"

\* validar_ruta_archivo about to be called
InitW ==
    /\ InitResto
    /\ ll_args \in RutasW
    /\ ll_ret = <<>>
    /\ ll_pc = "inicio"

\* a machine on which the JSON backend was used before: the file holds the
\* accounts created then, no manager is constructed, the collection is empty
InitJ ==
    /\ InitRdSinLlamar
    /\ InitMongoSinConstruir
    /\ InitSinBorrar
    /\ InitSinHandler
    /\ InitSinLlamada
    /\ InitSinConstruir
    /\ now = 0
    /\ repo_cuentas = Vacio
    /\ repo_archivo = SinArchivo
    /\ repo_backups = {}
    /\ repo_escrituras = 0
    /\ \E n \in 0..MaxCuentas :
           /\ db_cuentas = Vacio
           /\ db_archivo = DbCon(n).archivo
           /\ db_backups = DbCon(n).backups
           /\ db_escrituras = DbCon(n).escrituras
           /\ db_uuid = DbCon(n).uuid
    /\ nm_running = TRUE
    /\ nm_thread = 1
    /\ nm_callbacks = <<"_on_notifications_received">>
    /\ nm_hilos = <<"while">>
    /\ nm_tam = <<0>>
    /\ nm_join = FALSE
    /\ tk_after = 0
    /\ tk_ventana = "abierta"
    /\ indicator_count = 0
    /\ ui_toques = {Toque("status_label", "main")}

\* DatabaseManager('json') constructed on a file of n accounts
InitK ==
    /\ InitRdSinLlamar
    /\ InitMongoSinConstruir
    /\ InitSinBorrar
    /\ InitSinHandler
    /\ InitSinLlamada
    /\ InitSinConstruir
    /\ now = 0
    /\ repo_cuentas = Vacio
    /\ repo_archivo = SinArchivo
    /\ repo_backups = {}
    /\ repo_escrituras = 0
    /\ \E n \in 0..MaxCuentas :
           /\ db_cuentas = DbCon(n).cuentas
           /\ db_archivo = DbCon(n).archivo
           /\ db_backups = DbCon(n).backups
           /\ db_escrituras = DbCon(n).escrituras
           /\ db_uuid = DbCon(n).uuid
    /\ nm_running = TRUE
    /\ nm_thread = 1
    /\ nm_callbacks = <<"_on_notifications_received">>
    /\ nm_hilos = <<"while">>
    /\ nm_tam = <<0>>
    /\ nm_join = FALSE
    /\ tk_after = 0
    /\ tk_ventana = "abierta"
    /\ indicator_count = 0
    /\ ui_toques = {Toque("status_label", "main")}

\* an account, validated or not, whose status is asked as time goes by
InitY ==
    /\ InitResto
    /\ ll_args \in CuentasY
    /\ ll_ret = <<>>
    /\ ll_pc = "inicio"

\* the Generation C window showing its accounts, some rows selected
InitF ==
    /\ InitResto
    /\ ll_args \in {l \in LlamadasF : l.filas \subseteq DOMAIN l.cuentas}
    /\ ll_ret = <<>>
    /\ ll_pc = "inicio"

\* CuentaServicio(...) about to be called on some arguments
InitV ==
    /\ InitApp
    /\ InitRdSinLlamar
    /\ InitMongoSinConstruir
    /\ InitSinBorrar
    /\ InitSinHandler
    /\ InitSinLlamada
    /\ pv_entrada \in EntradasV
    /\ pv_error = <<>>
    /\ pv_pc = "inicio"

\* two managers after construction on empty stores, one on each backend
InitE ==
    /\ InitApp
    /\ InitRdSinLlamar
    /\ InitSinBorrar
    /\ InitSinHandler
    /\ InitSinLlamada
    /\ InitSinConstruir
    /\ mg_db_type = "mongodb"
    /\ mg_ping = "ok"
    /\ mg_docs = Vacio
    /\ mg_res = SinResultado
    /\ mg_res_json = SinResultado
    /\ mg_migrados = {}

\* the application with some accounts created in each store, before any
\* delete handler has run
InitD ==
    /\ InitRdSinLlamar
    /\ InitMongoSinConstruir
    /\ InitSinBorrar
    /\ InitSinHandler
    /\ InitSinLlamada
    /\ InitSinConstruir
    /\ now = 0
    /\ \E tipos \in SUBSET TiposB :
           /\ repo_cuentas = RepoCon(tipos).cuentas
           /\ repo_archivo = RepoCon(tipos).archivo
           /\ repo_backups = RepoCon(tipos).backups
           /\ repo_escrituras = RepoCon(tipos).escrituras
    /\ \E n \in 0..MaxCuentas :
           /\ db_cuentas = DbCon(n).cuentas
           /\ db_archivo = DbCon(n).archivo
           /\ db_backups = DbCon(n).backups
           /\ db_escrituras = DbCon(n).escrituras
           /\ db_uuid = DbCon(n).uuid
    /\ nm_running = TRUE
    /\ nm_thread = 1
    /\ nm_callbacks = <<"_on_notifications_received">>
    /\ nm_hilos = <<"while">>
    /\ nm_tam = <<0>>
    /\ nm_join = FALSE
    /\ tk_after = 0
    /\ tk_ventana = "abierta"
    /\ indicator_count = 0
    /\ ui_toques = {Toque("status_label", "main")}

\* get_recordatorios_diarios about to be called on a list of accounts
InitR ==
    /\ InitApp
    /\ InitMongoSinConstruir
    /\ InitSinBorrar
    /\ InitSinHandler
    /\ InitSinLlamada
    /\ InitSinConstruir
    /\ rd_cuentas \in SeqHasta(CuentasR, MaxRecordatorios)
    /\ rd_hoy \in HoyR
    /\ rd_recordatorios = SinRecordatorios
    /\ rd_pc = "inicio"

NextB ==
    \/ CuentaDialog_guardar_nueva
    \/ CuentaDialog_guardar_editar
    \/ MainWindow_marcar_como_pagada
    \/ MainWindow_eliminar_cuenta_seleccionada
    \/ ReinicioB
    \/ Tick

SpecB == Init /\ [][NextB]_vars

NextA ==
    \/ ReinicioA
    \/ CuentaServicio_marcar_como_pagado
    \/ CrudOperations_nueva_cuenta
    \/ CrudOperations_editar_cuenta
    \/ CrudOperations_marcar_pagado
    \/ CrudOperations_eliminar_cuenta
    \/ Tick

SpecA == Init /\ [][NextA]_vars

NextN ==
    \/ \E h \in DOMAIN nm_hilos : NotificationManager_loop_while(h)
    \/ \E h \in DOMAIN nm_hilos : NotificationManager_obtener_cuentas_pendientes(h)
    \/ \E h \in DOMAIN nm_hilos : NotificationManager_check_notifications(h)
    \/ \E h \in DOMAIN nm_hilos : NotificationManager_loop_sleep(h)
    \/ Tk_after_show_notification_popup
    \/ MainWindow_on_closing
    \/ CrudOperations_nueva_cuenta
    \/ CrudOperations_marcar_pagado
    \/ Tick

SpecN == Init /\ [][NextN]_vars

\* the notification manager driven through its public start and stop
NextT ==
    \/ NotificationManager_start
    \/ NotificationManager_stop
    \/ NotificationManager_stop_join
    \/ \E h \in DOMAIN nm_hilos : NotificationManager_loop_while(h)
    \/ \E h \in DOMAIN nm_hilos : NotificationManager_obtener_cuentas_pendientes(h)
    \/ \E h \in DOMAIN nm_hilos : NotificationManager_check_notifications(h)
    \/ \E h \in DOMAIN nm_hilos : NotificationManager_loop_sleep(h)
    \/ Tick

SpecT == Init /\ [][NextT]_vars

NextM ==
    \/ DatabaseManager_init
    \/ DatabaseManager_crear_cuenta
    \/ DatabaseManager_obtener_cuenta
    \/ DatabaseManager_actualizar_cuenta
    \/ DatabaseManager_eliminar_cuenta
    \/ Tick

SpecM == Init /\ [][NextM]_vars

NextE ==
    \/ Ambos_crear_cuenta
    \/ Ambos_obtener_cuenta
    \/ Ambos_actualizar_cuenta
    \/ Ambos_eliminar_cuenta
    \/ Tick

SpecE == InitE /\ [][NextE]_vars

NextD ==
    \/ MainWindow_eliminar_cuenta_seleccionada_askyesno
    \/ MainWindow_eliminar_cuentas_seleccionadas
    \/ CuentaTable_on_delete_requested
    \/ CrudOperations_eliminar_cuenta_askyesno
    \/ MainWindow__eliminar_cuenta
    \/ EnhancedCuentaTable__on_key_press
    \/ Tick

SpecD == InitD /\ [][NextD]_vars

NextH ==
    \/ MainWindow_cargar_cuentas
    \/ MainWindow_mostrar_dialogo_nueva_cuenta
    \/ MainWindow_editar_cuenta_seleccionada
    \/ MainWindow_marcar_como_pagada_handle_ui_errors
    \/ MainWindow_eliminar_cuenta_seleccionada_askyesno
    \/ MainWindow_eliminar_cuentas_seleccionadas
    \/ Tick

SpecH == InitD /\ [][NextH]_vars

NextV ==
    \/ CuentaServicio_post_init
    \/ Tick

SpecV == InitV /\ [][NextV]_vars

NextG ==
    \/ CuentaDialog_guardar_nueva
    \/ CuentaDialog_guardar_editar
    \/ Tick

SpecG == InitD /\ [][NextG]_vars

NextS ==
    \/ CuentaServicio_get_estado
    \/ Tick

SpecS == InitS /\ [][NextS]_vars

NextQ ==
    \/ DatabaseManager_buscar_cuentas
    \/ Tick

SpecQ == InitQ /\ [][NextQ]_vars

NextU ==
    \/ DatabaseManager_obtener_resumen_mensual
    \/ Tick

SpecU == InitU /\ [][NextU]_vars

NextW ==
    \/ SecurityManager_validar_ruta_archivo
    \/ Tick

SpecW == InitW /\ [][NextW]_vars

NextJ ==
    \/ DatabaseManager_init
    \/ DatabaseManager_eliminar_cuenta
    \/ main_retorna
    \/ Tick

SpecJ == InitJ /\ [][NextJ]_vars

NextK ==
    \/ DatabaseManager_crear_cuenta_json
    \/ DatabaseManager_actualizar_cuenta_json
    \/ DatabaseManager_eliminar_cuenta_json
    \/ Tick

SpecK == InitK /\ [][NextK]_vars

\* the clock does not stop: time passes whatever the program does
SpecY == InitY /\ [][NextS]_vars /\ WF_vars(Tick)

NextF ==
    \/ CrudOperations_editar_cuenta_fila
    \/ CrudOperations_marcar_pagado_fila
    \/ CrudOperations_eliminar_cuenta_filas
    \/ Tick

SpecF == InitF /\ [][NextF]_vars

NextR == NotificationService_get_recordatorios_diarios

SpecR == InitR /\ [][NextR]_vars

\* ================================================================= claims
\* C1: after any sequence of create, edit-dialog save, mark-as-paid, save
\* and reload, every stored account is paid if and only if it has a
\* payment timestamp.
C1_PagadoSiiFechaPago ==
    /\ \A id \in DOMAIN db_cuentas :
          db_cuentas[id].pagado <=> db_cuentas[id].fecha_pago # None
    /\ \A id \in DOMAIN repo_cuentas :
          repo_cuentas[id].pagado <=> repo_cuentas[id].fecha_pago # None

\* C2: an account that is in the store stays in it, under its id and not
\* replaced by a newly created one, across every step that is not the
\* delete handler.
C2_CuentaPermanece ==
    [][\/ MainWindow_eliminar_cuenta_seleccionada
       \/ /\ \A id \in DOMAIN repo_cuentas : id \in DOMAIN repo_cuentas'
          /\ CuentaDialog_guardar_nueva =>
                \A id \in DOMAIN repo_cuentas : repo_cuentas'[id] = repo_cuentas[id]]_vars

\* C3: a mark-as-paid call on an account that is already paid, with the
\* payment timestamp its first call set, leaves that timestamp as it was
\* (and, in Generation B, its history as long as it was).
C3_SegundoPagoSinEfecto ==
    [][/\ (CuentaServicio_marcar_como_pagado \/ CrudOperations_marcar_pagado) =>
            \A id \in DOMAIN db_cuentas :
                (db_cuentas[id].pagado /\ db_cuentas[id].fecha_pago # None) =>
                    /\ id \in DOMAIN db_cuentas'
                    /\ db_cuentas'[id].fecha_pago = db_cuentas[id].fecha_pago
       /\ MainWindow_marcar_como_pagada =>
            \A id \in DOMAIN repo_cuentas :
                (repo_cuentas[id].pagado /\ repo_cuentas[id].fecha_pago # None) =>
                    /\ id \in DOMAIN repo_cuentas'
                    /\ repo_cuentas'[id].fecha_pago = repo_cuentas[id].fecha_pago
                    /\ Len(repo_cuentas'[id].historial) = Len(repo_cuentas[id].historial)]_vars

\* C4: a paid account that is still in the store after a step is still
\* paid after it.
C4_PagoDeUnaVia ==
    [][/\ \A id \in DOMAIN repo_cuentas \cap DOMAIN repo_cuentas' :
            repo_cuentas[id].pagado => repo_cuentas'[id].pagado
       /\ \A id \in DOMAIN db_cuentas \cap DOMAIN db_cuentas' :
            db_cuentas[id].pagado => db_cuentas'[id].pagado]_vars

\* the record of a Generation-B account as the file holds it after a save
\* and as the loader sees it: serialized, sanitized on save, sanitized on load
RegistroLeidoB(c) == sanitizar_datos_json(sanitizar_datos_json(_serializar_cuenta(c)))

NucleoIgual(c, r) ==
    /\ r.id = c.id /\ r.tipo_servicio = c.tipo_servicio /\ r.monto = c.monto
    /\ r.fecha_emision = c.fecha_emision /\ r.fecha_vencimiento = c.fecha_vencimiento
    /\ r.fecha_corte = c.fecha_corte /\ r.fecha_pago = c.fecha_pago
    /\ r.pagado = c.pagado

\* C5: every stored account, serialized to its record and parsed back,
\* parses without error and gives an account equal in id, type, amount,
\* the four core dates and the paid flag.
C5_IdaYVuelta ==
    /\ \A id \in DOMAIN db_cuentas :
          /\ from_dict_ok(to_dict(db_cuentas[id]))
          /\ NucleoIgual(db_cuentas[id], from_dict(to_dict(db_cuentas[id]), now))
    /\ \A id \in DOMAIN repo_cuentas :
          /\ deserializar_ok(RegistroLeidoB(repo_cuentas[id]), now)
          /\ NucleoIgual(repo_cuentas[id], _deserializar_cuenta(RegistroLeidoB(repo_cuentas[id])))

\* C6: a create that stores an account adds one account to the store: its
\* id is the id of no account that was there.
C6_IdNuevo ==
    [][/\ (CuentaDialog_guardar_nueva /\ repo_escrituras' # repo_escrituras) =>
            Cardinality(DOMAIN repo_cuentas') = Cardinality(DOMAIN repo_cuentas) + 1
       /\ (CrudOperations_nueva_cuenta /\ db_escrituras' # db_escrituras) =>
            Cardinality(DOMAIN db_cuentas') = Cardinality(DOMAIN db_cuentas) + 1]_vars

\* C7: across every step that is not the delete handler, every history
\* entry of every account is still there afterwards, unchanged and at the
\* same position.
C7_HistorialSoloCrece ==
    [][\/ MainWindow_eliminar_cuenta_seleccionada
       \/ \A id \in DOMAIN repo_cuentas :
              \A i \in 1..Len(repo_cuentas[id].historial) :
                  /\ id \in DOMAIN repo_cuentas'
                  /\ i <= Len(repo_cuentas'[id].historial)
                  /\ repo_cuentas'[id].historial[i] = repo_cuentas[id].historial[i]]_vars

\* C8: every account in the store has a due date after its issue date and
\* an amount greater than 0.
C8_FechasYMonto ==
    /\ \A id \in DOMAIN db_cuentas :
          /\ db_cuentas[id].fecha_vencimiento > db_cuentas[id].fecha_emision
          /\ FloatGt(db_cuentas[id].monto, 0)
    /\ \A id \in DOMAIN repo_cuentas :
          /\ repo_cuentas[id].fecha_vencimiento > repo_cuentas[id].fecha_emision
          /\ FloatGt(repo_cuentas[id].monto, 0)

\* C9: after n saves the backups directory holds min(n, 10) files.
C9_RespaldosPorGuardado ==
    /\ Cardinality(db_backups) = Min(db_escrituras, max_backups)
    /\ Cardinality(repo_backups) = Min(repo_escrituras, max_backups)

\* C10: every widget touched so far was touched by the main thread; the
\* poll thread configures no widget.
C10_SoloHiloPrincipal == \A e \in ui_toques : e.hilo = "main"

HilosVivos == {h \in DOMAIN nm_hilos : nm_hilos[h] # "fin"}

\* C11: at any time at most one poll thread of the notification manager is
\* alive, whatever start and stop calls were made.
C11_UnSoloHilo == Cardinality(HilosVivos) <= 1

\* C12: no step of a main-thread handler changes the account dictionary
\* while a poll thread is in the middle of iterating it.
C12_SinEstadoCompartido ==
    [][db_cuentas' # db_cuentas => \A h \in DOMAIN nm_hilos : nm_hilos[h] # "iter"]_vars

\* the buckets of the returned dictionary that hold account i
BucketsDe(r, i) ==
    {b \in {"vencen_hoy", "vencen_proximamente", "en_riesgo_corte", "vencidas"} :
        \E k \in 1..Len(r[b]) : r[b][k] = i}

\* the bucket the precedence order gives an unpaid account: the first whose
\* condition holds, "ninguno" when none holds
PrimerBucket(c, hoy) ==
    IF Fecha(c.fecha_vencimiento) = Fecha(hoy) THEN "vencen_hoy"
    ELSE IF Fecha(c.fecha_vencimiento) - Fecha(hoy) <= vencimiento_dias_antes
         THEN "vencen_proximamente"
    ELSE IF B_esta_en_riesgo_corte(c, hoy) THEN "en_riesgo_corte"
    ELSE IF B_esta_vencida(c, hoy) THEN "vencidas"
    ELSE "ninguno"

C14_RespaldoJson ==
    (mg_ping \notin {"ninguno", "ok"}) => (mg_db_type = "json" /\ ~mg_res.lanza)

\* C15: on the MongoDB backend no manager call raises, whether the storage
\* operation inside it failed or not.
C15_SinExcepcion == mg_db_type = "mongodb" => ~mg_res.lanza

\* C16: the same sequence of calls gives, on the JSON backend and on the
\* MongoDB backend, the same result for the last call (the same stored
\* accounts are exposed to the caller).
C16_BackendsIguales == mg_res_json = mg_res

\* C17: a step of a delete handler (button, bulk, context menu, keyboard)
\* changes a store only when its confirmation dialog was shown and answered
\* yes; a handler whose dialog was declined, or never shown, leaves both
\* stores as they were.
C17_BorrarSoloConfirmado ==
    [][dl_n' # dl_n =>
          /\ (varsB' # varsB \/ varsA' # varsA) => dl_dialogo' = "si"
          /\ dl_dialogo' # "si" => (varsB' = varsB /\ varsA' = varsA)]_vars

\* a confirmed delete has emptied the Generation B store, and then a
\* declined delete of the Generation C handler left that store whole
C17_Testigo ==
    /\ repo_archivo.existe
    /\ DOMAIN repo_cuentas = {}
    /\ dl_ruta = "CrudOperations.eliminar_cuenta"
    /\ dl_dialogo = "no"
    /\ Cardinality(DOMAIN db_cuentas) = MaxCuentas
    /\ dl_n = 2

\* C18: no call of a handler of the Generation B window ends with its
\* exception leaving the handler towards the event loop: every one is
\* caught by the decorator, logged and shown as a dialog.
C18_NadaLlegaAlBucle == hb_fin # "propaga"

\* the rules of __post_init__ the arguments violate
ReglasVioladas(c, t) ==
    {ReglasPostInit(c, t)[i].regla : i \in {j \in 1..Len(ReglasPostInit(c, t)) :
                                              ReglasPostInit(c, t)[j].falla}}

\* C19: when the construction of an account fails, the one error raised
\* names every rule the arguments violate, not only the first.
C19_TodasLasReglas ==
    pv_pc = "construido" =>
        {pv_error[i] : i \in 1..Len(pv_error)} = ReglasVioladas(pv_entrada, now)

\* C20: a save of the Generation B dialog persists only data that violates
\* no domain rule: every account a save creates or changes satisfies the
\* rules of the entity afterwards, the cutoff-date and next-reading-date
\* rules included; data that violates one leaves the store as it was.
C20_GuardarSoloValido ==
    [][\A id \in DOMAIN repo_cuentas' :
          (id \notin DOMAIN repo_cuentas \/ repo_cuentas'[id] # repo_cuentas[id])
              => post_init_ok(repo_cuentas'[id], now)]_vars

\* C21: get_estado returns Paid for a paid account whatever its dates;
\* for an unpaid one Overdue when the clock is past the due date, else
\* Cutoff-risk when it has a cutoff date the clock has reached, else Pending.
C21_Estado ==
    ll_pc = "retornado" =>
        LET c == ll_args
            t == ll_ret.reloj
            corte == c.fecha_corte # None /\ t >= c.fecha_corte
        IN /\ c.pagado => ll_ret.valor = "Pagado"
           /\ (~c.pagado /\ t > c.fecha_vencimiento) => ll_ret.valor = "Vencido"
           /\ (~c.pagado /\ t <= c.fecha_vencimiento /\ corte)
                  => ll_ret.valor = "En Riesgo de Corte"
           /\ (~c.pagado /\ t <= c.fecha_vencimiento /\ ~corte)
                  => ll_ret.valor = "Pendiente"

\* an unpaid account past its due date and past its cutoff date was
\* reported Overdue
C21_Testigo ==
    /\ ll_pc = "retornado"
    /\ ~ll_args.pagado
    /\ ll_args.fecha_corte # None
    /\ ll_ret.reloj >= ll_args.fecha_corte
    /\ ll_ret.reloj > ll_args.fecha_vencimiento
    /\ ll_ret.valor = "Vencido"

\* the text contains the term, letter case ignored
Contiene(texto, termino) ==
    \E i \in 1..(Len(texto) + 1 - Len(termino)) :
        \A k \in 1..Len(termino) : lower(termino[k]) = lower(texto[i + k - 1])

\* C22: buscar_cuentas returns exactly the accounts whose description,
\* observations or service-type label contains the term, letter case
\* ignored, on both managers and both backends.
C22_BusquedaExacta ==
    ll_pc = "retornado" =>
        ll_ret = {i \in 1..Len(ll_args.cuentas) :
                     \/ Contiene(ll_args.cuentas[i].descripcion, ll_args.termino)
                     \/ Contiene(ll_args.cuentas[i].observaciones, ll_args.termino)
                     \/ Contiene(ll_args.cuentas[i].tipo_servicio, ll_args.termino)}

\* the sum of the numbers of a sequence
RECURSIVE Suma(_)
Suma(s) == IF s = <<>> THEN 0 ELSE Head(s) + Suma(Tail(s))

\* C23: the monthly summary has as total the sum of monto over exactly the
\* accounts issued in that month and year, and as overdue count the number
\* of those accounts that are unpaid and past their due date.
C23_ResumenMensual ==
    ll_pc = "retornado" =>
        LET DelMes(c) == c.fecha_emision.month = ll_args.mes
                         /\ c.fecha_emision.year = ll_args.anio
            Vencida(c) == DelMes(c) /\ ~c.pagado /\ ll_ret.reloj > c.fecha_vencimiento
        IN /\ ~ll_ret.resumen.lanza
           /\ ll_ret.resumen.total_gastos =
                  Suma([i \in DOMAIN ll_args.cuentas |->
                           IF DelMes(ll_args.cuentas[i]) THEN ll_args.cuentas[i].monto ELSE 0])
           /\ ll_ret.resumen.cuentas_vencidas =
                  Suma([i \in DOMAIN ll_args.cuentas |->
                           IF Vencida(ll_args.cuentas[i]) THEN 1 ELSE 0])

\* the name is a reserved device name, in any case, followed by any extension
EsNombreReservado(nombre) ==
    \E r \in nombres_reservados :
        /\ Len(nombre[1]) = Len(r)
        /\ \A k \in DOMAIN r : str_lower(nombre[1][k]) = str_lower(r[k])

C25_MigracionUnaVez ==
    [][(mg_migrados # {} /\ mg_db_type = "sin_construir" /\ mg_db_type' # "sin_construir")
           => DOMAIN mg_docs' \subseteq DOMAIN mg_docs]_vars

\* C26: when the write of the JSON file fails during create, update or
\* delete, the accounts held in memory are the ones held before the call.
C26_FalloSinEfecto ==
    [][(ll_pc' = "retornado" /\ ll_ret'.lanza) => db_cuentas' = db_cuentas]_vars

\* C27: once NotificationManager.stop() has returned, the polling thread
\* starts no notification check and finishes none (no callback, no popup).
C27_DetenidoNoRevisa ==
    [][(~nm_running /\ ~nm_join) =>
           \A h \in DOMAIN nm_hilos :
               /\ ~(nm_hilos[h] = "check" /\ nm_hilos'[h] = "iter")
               /\ ~(nm_hilos[h] = "iter" /\ nm_hilos'[h] = "sleep")]_vars

C29_VencidasYProximas ==
    rd_pc = "hecho" =>
        /\ \A i \in 1..Len(rd_cuentas) :
               (/\ ~rd_cuentas[i].pagado
                /\ Fecha(rd_cuentas[i].fecha_vencimiento) < Fecha(rd_hoy)
                /\ ~B_esta_en_riesgo_corte(rd_cuentas[i], rd_hoy))
                   => \E k \in 1..Len(rd_recordatorios.vencidas) :
                          rd_recordatorios.vencidas[k] = i
        /\ \A k \in 1..Len(rd_recordatorios.vencen_proximamente) :
               LET c == rd_cuentas[rd_recordatorios.vencen_proximamente[k]]
               IN /\ Fecha(c.fecha_vencimiento) > Fecha(rd_hoy)
                  /\ Fecha(c.fecha_vencimiento) - Fecha(rd_hoy) <= vencimiento_dias_antes

\* C30: edit, delete and mark-as-paid of the Generation C window leave every
\* account whose row was not selected as it was, and a confirmed delete
\* removes every account whose row was selected.
C30_SoloLasSeleccionadas ==
    ll_pc = "retornado" =>
        /\ \A i \in DOMAIN ll_args.cuentas :
               i \notin ll_args.filas =>
                   (i \in DOMAIN ll_ret.cuentas /\ ll_ret.cuentas[i] = ll_args.cuentas[i])
        /\ (ll_ret.op = "eliminar" /\ ll_ret.confirmado) =>
               \A i \in ll_args.filas : i \notin DOMAIN ll_ret.cuentas

====
